---- MODULE Spec2Model ----
(***************************************************************************)
(* Grounded locomotion and ground detection of the Babylon.js game:        *)
(* Game (render-loop frame, key handlers), Player (five-ray revision,      *)
(* src/unnamed/part_001), ConfigManager (src/unnamed/part_000) and         *)
(* InputManager (src/src/core/AssetManager.js).                            *)
(*                                                                         *)
(* Numbers are fixed point.  One length step is 1e-5 world unit, one time  *)
(* step is 0.1 s, a velocity is in length steps per time step.  With these *)
(* units every product the code forms (gravity * deltaTime,                *)
(* verticalVelocity * deltaTime, config value * scaleFactor) is an exact   *)
(* integer.  The smoothing factor is in percent.                           *)
(***************************************************************************)
EXTENDS Integers, Sequences, FiniteSets, TLC

VARIABLES
    cfg,              \* ConfigManager.config: the keys Player reads that have no default
    scene,            \* the scene's meshes other than the player's: name, collision flag, top face
    worldMeshes,      \* Game.worldMeshes, the list handed to Player.update / findGround
    mesh,             \* Player.mesh: position, checkCollisions, rotation.y
    position,         \* Player.position
    verticalVelocity, \* Player.verticalVelocity
    isGrounded,       \* Player.isGrounded
    isMoving,         \* Player.isMoving
    flyMode,          \* Game.flyMode
    isPaused,         \* Game.isPaused
    gameState,        \* UIManager.gameState
    keyMap,           \* InputManager.keyMap: the key codes whose entry is true
    stats,            \* Game.stats: frameCount, deltaTime
    frame,            \* what the last Player operation did: its locals and engine calls
    clock,            \* performance.now() and the times of the last render-loop callbacks
    playerScaleFactor, \* Player.scaleFactor, the constructor's argument
    assetManager,     \* AssetManager: its three maps, the imports started, the loadModel calls
    inputManager,     \* InputManager: keyMap with its true and false entries, isEnabled
    keyEvents,        \* per key code, the last key event InputManager processed since it was cleared
    panels,           \* UIManager.panels[..].isVisible and UIManager.activePanel
    cameraController  \* CameraController: currentMode, scene.activeCamera, the arcRotate radius

vars == <<cfg, scene, worldMeshes, mesh, position, verticalVelocity, isGrounded,
          isMoving, flyMode, isPaused, gameState, keyMap, stats, frame, clock,
          playerScaleFactor, assetManager, inputManager, keyEvents, panels,
          cameraController>>

(***************************************************************************)
(* Bounds of the model.                                                    *)
(***************************************************************************)
MaxFrames == 3
DeltaTimes == {1, 2}

(***************************************************************************)
(* JavaScript numbers that can be undefined or NaN.                        *)
(***************************************************************************)
Undefined == 0 - 2^30
NaN == Undefined - 1

IsNum(a) == a # NaN /\ a # Undefined
Add(a, b) == IF IsNum(a) /\ IsNum(b) THEN a + b ELSE NaN
Sub(a, b) == IF IsNum(a) /\ IsNum(b) THEN a - b ELSE NaN
Mul(a, b) == IF IsNum(a) /\ IsNum(b) THEN a * b ELSE NaN
Leq(a, b) == IsNum(a) /\ IsNum(b) /\ a <= b
Lt(a, b) == IsNum(a) /\ IsNum(b) /\ a < b
Gt(a, b) == IsNum(a) /\ IsNum(b) /\ a > b
Abs(a) == IF IsNum(a) THEN (IF a < 0 THEN 0 - a ELSE a) ELSE NaN
\* integer quotient rounded toward zero
Quot(a, d) == IF a >= 0 THEN a \div d ELSE 0 - ((0 - a) \div d)
Max(a, b) == IF a >= b THEN a ELSE b
Min(a, b) == IF a <= b THEN a ELSE b

(***************************************************************************)
(* Constants of the program, in the fixed-point units.                     *)
(***************************************************************************)
scaleFactor == 10
ConfigGravity == 0 - 9810
ConfigSpeed == 3000
ConfigJumpForce == 2000
EllipsoidXCoef == 5670
EllipsoidYCoef == 6804
RayOffsetCoef == 5000
RayLength == 20 * 10^5
MinCorrectionCoef == 5000
MaxCorrectionCoef == 50000
SpawnClearance == 10^5
SpawnRayStartCoef == 1000 * 10^5
SpawnRayLengthCoef == 2000 * 10^5
FallbackPosition == [x |-> 0 - 16 * 10^5, y |-> 2 * 10^5, z |-> 51 * 10^5]

playerSpeed == ConfigSpeed * scaleFactor
jumpForce == ConfigJumpForce * scaleFactor
gravity == ConfigGravity * scaleFactor
\* mesh.ellipsoid of a player constructed with scaleFactor s
EllipsoidFor(s) == [x |-> EllipsoidXCoef * s, y |-> EllipsoidYCoef * s, z |-> EllipsoidXCoef * s]
ellipsoid == EllipsoidFor(scaleFactor)

DefaultConfig == [groundTolerance |-> Undefined, smoothingFactor |-> Undefined]

KeyBindings == [forward |-> "KeyW", backward |-> "KeyS", left |-> "KeyA",
                right |-> "KeyD", jump |-> "Space", run |-> "ShiftLeft",
                crouch |-> "ControlLeft"]

(***************************************************************************)
(* The scene.  Every mesh other than the player's is a horizontal face at  *)
(* height top over the rectangle [x0, x1] x [z0, z1].                      *)
(***************************************************************************)
PlayerMesh == "player"
SkyBox == "skyBox"
Zero == [x |-> 0, y |-> 0, z |-> 0]
NoHit == [hit |-> FALSE, distance |-> 0, pickedMesh |-> "none", pickedPoint |-> Zero]
Infinity == 2^30

\* worldMeshes && worldMeshes.length > 0
HasWorldMeshes(wm) == (~wm.isNull) /\ wm.list # {}

\* the filter findGround hands to scene.pickWithRay
FindGroundPredicate(m, wm) ==
    IF HasWorldMeshes(wm)
    THEN m \in wm.list /\ scene[m].checkCollisions /\ m # PlayerMesh
    ELSE scene[m].checkCollisions /\ m # PlayerMesh /\ scene[m].name # "skyBox"

\* a downward ray of the given length from origin meets the face of mesh m
RayHits(origin, length, m) ==
    /\ IsNum(origin.y)
    /\ scene[m].x0 <= origin.x /\ origin.x <= scene[m].x1
    /\ scene[m].z0 <= origin.z /\ origin.z <= scene[m].z1
    /\ scene[m].top <= origin.y
    /\ origin.y - scene[m].top <= length

\* scene.pickWithRay: the closest mesh the ray meets among those the filter
\* lets through
PickWithRay(origin, length, allowed) ==
    LET cands == {m \in allowed : RayHits(origin, length, m)}
    IN  IF cands = {} THEN NoHit
        ELSE LET best == CHOOSE m \in cands :
                            \A n \in cands : scene[m].top >= scene[n].top
             IN  [hit |-> TRUE,
                  distance |-> origin.y - scene[best].top,
                  pickedMesh |-> best,
                  pickedPoint |-> [x |-> origin.x, y |-> scene[best].top, z |-> origin.z]]

\* the five offsets of findGround: centre line and four corners
RayOffsetsFor(s) ==
    LET c == RayOffsetCoef * s
    IN  << [x |-> 0, z |-> 0], [x |-> c, z |-> c], [x |-> 0 - c, z |-> c],
           [x |-> c, z |-> 0 - c], [x |-> 0 - c, z |-> 0 - c] >>

RayOffsets == RayOffsetsFor(scaleFactor)

RayOrigin(i) ==
    [x |-> mesh.position.x + RayOffsets[i].x,
     y |-> Sub(mesh.position.y, ellipsoid.y),
     z |-> mesh.position.z + RayOffsets[i].z]

GroundProbe(i, wm) ==
    PickWithRay(RayOrigin(i), RayLength,
                {m \in DOMAIN scene : FindGroundPredicate(m, wm)})

\* the loop of findGround from ray i on: the best hit so far, the closest
\* distance so far and the origins of the rays cast
RECURSIVE FindGroundLoop(_, _, _, _, _)
FindGroundLoop(i, wm, bestHit, closestDistance, rays) ==
    IF i > Len(RayOffsets)
    THEN [bestHit |-> bestHit, rays |-> rays]
    ELSE LET hit == GroundProbe(i, wm)
         IN  IF hit.hit /\ hit.distance < closestDistance
             THEN FindGroundLoop(i + 1, wm, hit, hit.distance, Append(rays, RayOrigin(i)))
             ELSE FindGroundLoop(i + 1, wm, bestHit, closestDistance, Append(rays, RayOrigin(i)))

\* a probe that casts the centre ray only
FindGroundCentreOnly(wm) ==
    [bestHit |-> GroundProbe(1, wm), rays |-> << RayOrigin(1) >>]

FindGroundCall(wm) == FindGroundLoop(1, wm, NoHit, Infinity, << >>)
FindGround(wm) == FindGroundCall(wm).bestHit

(***************************************************************************)
(* Player.update: the horizontal intent.  The camera looks along +z with   *)
(* +x to its right, so forward = (0,0,1) and right = (1,0,0).              *)
(***************************************************************************)
Pressed(inputMap, action) == KeyBindings[action] \in inputMap
Bit(b) == IF b THEN 1 ELSE 0

\* a moveDirection that reads the forward and right keys only
MoveDirectionForwardRight(inputMap) ==
    [x |-> Bit(Pressed(inputMap, "right")),
     z |-> Bit(Pressed(inputMap, "forward"))]

\* moveDirection before normalisation
MoveDirection(inputMap) ==
    [x |-> Bit(Pressed(inputMap, "right")) - Bit(Pressed(inputMap, "left")),
     z |-> Bit(Pressed(inputMap, "forward")) - Bit(Pressed(inputMap, "backward"))]

LengthSquared(d) == d.x * d.x + d.z * d.z

\* scaling without normalisation
ScaleOnly(c, lengthSquared, amount) == c * amount

\* one component of moveDirection.normalize().scale(amount); 1/sqrt(2) is
\* taken as 7071/10000
NormalizedScale(c, lengthSquared, amount) ==
    IF lengthSquared = 0 THEN 0
    ELSE IF lengthSquared = 1 THEN c * amount
    ELSE Quot(c * amount * 7071, 10000)

Speed(inputMap) == IF Pressed(inputMap, "run") THEN playerSpeed * 2 ELSE playerSpeed

HorizontalMove(inputMap, deltaTime) ==
    LET d == MoveDirection(inputMap)
    IN  [x |-> NormalizedScale(d.x, LengthSquared(d), Speed(inputMap) * deltaTime),
         z |-> NormalizedScale(d.z, LengthSquared(d), Speed(inputMap) * deltaTime)]

\* Math.atan2(moveDirection.x, moveDirection.z) in degrees
Atan2Deg(d) ==
    CASE d.x = 0 /\ d.z > 0 -> 0
      [] d.x > 0 /\ d.z > 0 -> 45
      [] d.x > 0 /\ d.z = 0 -> 90
      [] d.x > 0 /\ d.z < 0 -> 135
      [] d.x = 0 /\ d.z < 0 -> 180
      [] d.x < 0 /\ d.z < 0 -> 0 - 135
      [] d.x < 0 /\ d.z = 0 -> 0 - 90
      [] d.x < 0 /\ d.z > 0 -> 0 - 45
      [] OTHER -> 0

(***************************************************************************)
(* mesh.moveWithCollisions, the engine's collision-aware translation: the  *)
(* ellipsoid is carried by the displacement and stops on the highest       *)
(* colliding face that lies under its centre and below it.                 *)
(***************************************************************************)
\* for a mesh whose ellipsoid has the vertical half-extent ey
MoveWithEllipsoid(ey, pos, d) ==
    LET tx == pos.x + d.x
        tz == pos.z + d.z
        under == {m \in DOMAIN scene :
                    /\ scene[m].checkCollisions
                    /\ scene[m].x0 <= tx /\ tx <= scene[m].x1
                    /\ scene[m].z0 <= tz /\ tz <= scene[m].z1
                    /\ Leq(scene[m].top + ey, pos.y)}
        floorY == IF under = {} THEN NaN
                  ELSE LET top == CHOOSE m \in under :
                                    \A n \in under : scene[m].top >= scene[n].top
                       IN  scene[top].top + ey
        ty == Add(pos.y, d.y)
    IN  [x |-> tx,
         y |-> IF IsNum(ty) /\ IsNum(floorY) THEN Max(ty, floorY) ELSE ty,
         z |-> tz]

MoveWithCollisions(pos, d) == MoveWithEllipsoid(ellipsoid.y, pos, d)

(***************************************************************************)
(* Player.updateNormalMode, statement by statement.                        *)
(***************************************************************************)
Tolerance == Mul(cfg.groundTolerance, scaleFactor)

\* the ground test without the velocity condition
GroundTestAnyVelocity(groundHit, tolerance, vv) ==
    groundHit.hit /\ Leq(groundHit.distance, tolerance)

\* line 914/919: the ground test
GroundTest(groundHit, tolerance, vv) ==
    groundHit.hit /\ Leq(groundHit.distance, tolerance) /\ vv <= 0

\* BABYLON.Scalar.Lerp(start, end, amount), amount in percent
Lerp(start, end, amount) ==
    IF IsNum(start) /\ IsNum(end) /\ IsNum(amount)
    THEN start + Quot((end - start) * amount, 100)
    ELSE NaN

\* the correction band without its lower threshold
NeedsCorrectionNoMinimum(currentY, targetY) ==
    Lt(Abs(Sub(targetY, currentY)), MaxCorrectionCoef * scaleFactor)

\* lines 923-934: the bounded, smoothed Y correction of a grounded frame
NeedsCorrection(currentY, targetY) ==
    LET yDifference == Abs(Sub(targetY, currentY))
    IN  /\ Gt(yDifference, MinCorrectionCoef * scaleFactor)
        /\ Lt(yDifference, MaxCorrectionCoef * scaleFactor)

\* a correction that snaps to the target whatever the smoothing factor
CorrectedYSnap(currentY, targetY) ==
    IF NeedsCorrection(currentY, targetY) THEN targetY ELSE currentY

CorrectedY(currentY, targetY) ==
    IF NeedsCorrection(currentY, targetY)
    THEN Lerp(currentY, targetY, cfg.smoothingFactor)
    ELSE currentY

\* gravity applied whether grounded or not
AfterGravityAlways(vv, grounded, deltaTime) == vv + gravity * deltaTime

\* gravity applied per frame instead of per unit of time
AfterGravityPerFrame(vv, grounded, deltaTime) ==
    IF ~grounded THEN vv + gravity ELSE vv

\* lines 942-945: gravity only while not grounded
AfterGravity(vv, grounded, deltaTime) ==
    IF ~grounded THEN vv + gravity * deltaTime ELSE vv

\* a jump that does not ask for ground
JumpsInAir(inputMap, grounded) == Pressed(inputMap, "jump")

\* lines 947-951: the jump
Jumps(inputMap, grounded) == Pressed(inputMap, "jump") /\ grounded

\* a frame that builds the displacement from the velocity it started with
UpdateNormalModeStaleVelocity(inputMap, horizontalMove, wm, deltaTime) ==
    LET call == FindGroundCall(wm)
        groundHit == call.bestHit
        grounded == GroundTest(groundHit, Tolerance, verticalVelocity)
        targetY == Add(groundHit.pickedPoint.y, ellipsoid.y)
        y1 == IF grounded THEN CorrectedY(mesh.position.y, targetY)
              ELSE mesh.position.y
        vv1 == IF grounded THEN 0 ELSE verticalVelocity
        vv2 == AfterGravity(vv1, grounded, deltaTime)
        jump == Jumps(inputMap, grounded)
        vv3 == IF jump THEN jumpForce ELSE vv2
        totalMove == [x |-> horizontalMove.x, y |-> verticalVelocity * deltaTime,
                      z |-> horizontalMove.z]
        start == [mesh.position EXCEPT !.y = y1]
    IN  [meshPosition |-> MoveWithCollisions(start, totalMove),
         checkCollisions |-> TRUE,
         verticalVelocity |-> vv3,
         isGrounded |-> grounded /\ ~jump,
         frame |-> [op |-> "update", mode |-> "normal", groundHit |-> groundHit,
                    rays |-> call.rays, grounded |-> grounded,
                    corrected |-> grounded /\ NeedsCorrection(mesh.position.y, targetY),
                    moves |-> << totalMove >>]]

UpdateNormalMode(inputMap, horizontalMove, wm, deltaTime) ==
    LET call == FindGroundCall(wm)
        groundHit == call.bestHit
        grounded == GroundTest(groundHit, Tolerance, verticalVelocity)
        targetY == Add(groundHit.pickedPoint.y, ellipsoid.y)
        y1 == IF grounded THEN CorrectedY(mesh.position.y, targetY)
              ELSE mesh.position.y
        vv1 == IF grounded THEN 0 ELSE verticalVelocity
        vv2 == AfterGravity(vv1, grounded, deltaTime)
        jump == Jumps(inputMap, grounded)
        vv3 == IF jump THEN jumpForce ELSE vv2
        totalMove == [x |-> horizontalMove.x, y |-> vv3 * deltaTime, z |-> horizontalMove.z]
        start == [mesh.position EXCEPT !.y = y1]
    IN  [meshPosition |-> MoveWithCollisions(start, totalMove),
         checkCollisions |-> TRUE,
         verticalVelocity |-> vv3,
         isGrounded |-> grounded /\ ~jump,
         frame |-> [op |-> "update", mode |-> "normal", groundHit |-> groundHit,
                    rays |-> call.rays, grounded |-> grounded,
                    corrected |-> grounded /\ NeedsCorrection(mesh.position.y, targetY),
                    moves |-> << totalMove >>]]

(***************************************************************************)
(* Player.updateFlyMode.                                                   *)
(***************************************************************************)
\* a vertical fly move that does not read the crouch key
FlyVerticalMoveUpOnly(inputMap, deltaTime) ==
    IF Pressed(inputMap, "jump") THEN playerSpeed * deltaTime ELSE 0

FlyVerticalMove(inputMap, deltaTime) ==
    IF Pressed(inputMap, "jump") THEN playerSpeed * deltaTime
    ELSE IF Pressed(inputMap, "crouch") THEN 0 - playerSpeed * deltaTime
    ELSE 0

UpdateFlyMode(inputMap, horizontalMove, deltaTime) ==
    LET flyMove == [x |-> horizontalMove.x,
                    y |-> FlyVerticalMove(inputMap, deltaTime),
                    z |-> horizontalMove.z]
    IN  [meshPosition |-> [x |-> mesh.position.x + flyMove.x,
                           y |-> Add(mesh.position.y, flyMove.y),
                           z |-> mesh.position.z + flyMove.z],
         checkCollisions |-> FALSE,
         verticalVelocity |-> 0,
         isGrounded |-> isGrounded,
         frame |-> [op |-> "update", mode |-> "fly", groundHit |-> NoHit,
                    rays |-> << >>, grounded |-> FALSE, corrected |-> FALSE,
                    moves |-> << >>]]

(***************************************************************************)
(* Player.update(inputMap, camera, worldMeshes, deltaTime, flyMode).       *)
(***************************************************************************)
PlayerUpdate(inputMap, wm, deltaTime, fly) ==
    LET d == MoveDirection(inputMap)
        horizontalMove == HorizontalMove(inputMap, deltaTime)
        r == IF fly THEN UpdateFlyMode(inputMap, horizontalMove, deltaTime)
             ELSE UpdateNormalMode(inputMap, horizontalMove, wm, deltaTime)
    IN  /\ isMoving' = (LengthSquared(d) > 0)
        /\ mesh' = [position |-> r.meshPosition,
                    checkCollisions |-> r.checkCollisions,
                    rotationY |-> IF LengthSquared(d) > 0 THEN Atan2Deg(d)
                                  ELSE mesh.rotationY]
        /\ verticalVelocity' = r.verticalVelocity
        /\ isGrounded' = r.isGrounded
        /\ position' = r.meshPosition
        /\ frame' = r.frame

(***************************************************************************)
(* Player constructor, setPosition and placeOnGround.                      *)
(***************************************************************************)
\* the constructor sets Player.position; the sphere it creates is at the origin
ConstructedPosition == [x |-> 0 - 16 * 10^5, y |-> 2 * 10^5, z |-> 51 * 10^5]
ConstructedMesh == [position |-> Zero, checkCollisions |-> TRUE, rotationY |-> 0]
NoFrame == [op |-> "construct", mode |-> "none", groundHit |-> NoHit, rays |-> << >>,
            grounded |-> FALSE, corrected |-> FALSE, moves |-> << >>]

\* a placement that stays where it is when there is nothing to stand on
PlaceOnGroundNoFallback(wm) ==
    IF ~HasWorldMeshes(wm) THEN mesh.position
    ELSE LET groundHit == PickWithRay([x |-> 0 - 16 * 10^5,
                                       y |-> SpawnRayStartCoef * scaleFactor,
                                       z |-> 51 * 10^5],
                                      SpawnRayLengthCoef * scaleFactor,
                                      {m \in DOMAIN scene :
                                          m \in wm.list /\ scene[m].checkCollisions})
         IN  IF groundHit.hit
             THEN [groundHit.pickedPoint EXCEPT
                      !.y = groundHit.pickedPoint.y + ellipsoid.y + SpawnClearance]
             ELSE mesh.position

\* where placeOnGround(wm) puts the player
PlaceOnGroundTarget(wm) ==
    IF ~HasWorldMeshes(wm) THEN FallbackPosition
    ELSE LET startPosition == [x |-> 0 - 16 * 10^5,
                               y |-> SpawnRayStartCoef * scaleFactor,
                               z |-> 51 * 10^5]
             groundHit == PickWithRay(startPosition, SpawnRayLengthCoef * scaleFactor,
                                      {m \in DOMAIN scene :
                                          m \in wm.list /\ scene[m].checkCollisions})
         IN  IF groundHit.hit
             THEN [groundHit.pickedPoint EXCEPT
                      !.y = groundHit.pickedPoint.y + ellipsoid.y + SpawnClearance]
             ELSE FallbackPosition

(***************************************************************************)
(* The worlds the model is run in.  A world is what the scene holds after  *)
(* Game.initSystems and Game.loadAssets: the sky box, the test box, the    *)
(* test ground and the meshes of the loaded model.                         *)
(***************************************************************************)
Far == 1000 * 10^5
Face(name, collide, top, x0, x1, z0, z1) ==
    [name |-> name, checkCollisions |-> collide, top |-> top,
     x0 |-> x0, x1 |-> x1, z0 |-> z0, z1 |-> z1]

SpawnZ == 51 * 10^5
FixedMeshes ==
    [m \in {"skyBox", "testBox", "ground"} |->
        CASE m = "skyBox"  -> Face("skyBox", FALSE, 0 - 5000 * 10^5,
                                   0 - 5000 * 10^5, 5000 * 10^5, 0 - 5000 * 10^5, 5000 * 10^5)
          [] m = "testBox" -> Face("testBox", FALSE, 125000, 0 - 325000, 0 - 275000,
                                   0 - 25000, 25000)
          [] m = "ground"  -> Face("ground", TRUE, 0, 0 - 25 * 10^5, 25 * 10^5,
                                   0 - 25 * 10^5, 25 * 10^5)]

\* the meshes of the loaded model; setupWorldModel has set checkCollisions
\* ("sky": a model that brings its own sky box; "ghost": a model mesh whose
\* flag is off when the probe runs; "away": a model with nothing under the
\* spawn column)
WorldModel(w) ==
    CASE w = "none"  -> << >>
      [] w = "sky"   -> << Face("island", TRUE, 0, 0 - Far, Far, SpawnZ - Far, SpawnZ + 5000),
                           Face("skyBox", TRUE, 0 - 10 * 10^5, 0 - Far, Far,
                                SpawnZ - Far, SpawnZ + Far) >>
      [] w = "ghost" -> << Face("floor", TRUE, 0, 0 - Far, Far, SpawnZ - Far, SpawnZ + Far),
                           Face("ghost", FALSE, 3 * 10^5, 0 - Far, Far,
                                SpawnZ - Far, SpawnZ + Far) >>
      [] w = "flat"  -> << Face("floor", TRUE, 0, 0 - Far, Far, SpawnZ - Far, SpawnZ + Far) >>
      [] w = "away"  -> << Face("terrain", TRUE, 0, 100 * 10^5, Far,
                                SpawnZ - Far, SpawnZ + Far) >>
      [] w = "ledge" -> << Face("ledge", TRUE, 6 * 10^5, 0 - Far, Far, SpawnZ - Far, SpawnZ + 5000),
                           Face("floor", TRUE, 0, 0 - Far, Far, SpawnZ - Far, SpawnZ + Far) >>
      [] w = "seam"  -> << Face("left", TRUE, 0, 0 - Far, Far, SpawnZ - Far, SpawnZ - 20000),
                           Face("right", TRUE, 0, 0 - Far, Far, SpawnZ + 20000, SpawnZ + Far) >>

Worlds == {"none", "flat", "ledge", "seam"}
WorldIdSeq == << "world1", "world2" >>
WorldIds(w) == {WorldIdSeq[i] : i \in 1..Len(WorldModel(w))}
WorldIndex(id) == CHOOSE i \in 1..Len(WorldIdSeq) : WorldIdSeq[i] = id

SceneOf(w) ==
    [m \in DOMAIN FixedMeshes \cup WorldIds(w) |->
        IF m \in DOMAIN FixedMeshes THEN FixedMeshes[m]
        ELSE WorldModel(w)[WorldIndex(m)]]

\* the configurations: the defaults, or the defaults merged with a stored
\* configuration that sets player.groundTolerance / player.smoothingFactor
Configs ==
    { DefaultConfig,
      [groundTolerance |-> 10000, smoothingFactor |-> 100],
      [groundTolerance |-> 100000, smoothingFactor |-> 10],
      [groundTolerance |-> 10000, smoothingFactor |-> Undefined] }

\* the keys pressed and released in the model
Keys == {"KeyW", "Space"}

\* Game.start: performance.now() is taken as time 0, in units of 0.1 s; where
\* deltaTime is drawn from DeltaTimes the clock is not advanced
ClockStart == [now |-> 0, lastCallback |-> 0, previousCallback |-> 0]

(***************************************************************************)
(* The other systems Game.init creates, as their constructors leave them.  *)
(* An asset or a promise is named by the number of the import that         *)
(* produces it, 0 standing for no entry; a key of keyMap is "absent",      *)
(* "true" or "false"; the camera radius is in sixteenths of a world unit.  *)
(***************************************************************************)
AssetNames == {"main_model", "props"}
NoProgress == 0 - 1

NewAssetManager ==
    [loadedAssets |-> [n \in AssetNames |-> 0],
     loadingPromises |-> [n \in AssetNames |-> 0],
     loadingProgress |-> [n \in AssetNames |-> NoProgress],
     imports |-> << >>,
     calls |-> << >>,
     disposed |-> FALSE]

NewInputManager == [keyMap |-> [k \in Keys |-> "absent"], isEnabled |-> TRUE]
NoKeyEvents == [k \in Keys |-> "none"]

NewPanels ==
    [settings |-> FALSE, position |-> FALSE, debug |-> FALSE, help |-> FALSE,
     activePanel |-> "none"]

InitialRadius == 15 * 16
NewCameraController ==
    [currentMode |-> "arcRotate", activeCamera |-> "arcRotate", radius |-> InitialRadius]

(***************************************************************************)
(* The state after Game.init: systems created, model loaded or not, the    *)
(* player constructed and, when there are world meshes, placed on ground.  *)
(***************************************************************************)
Init ==
    /\ cfg \in Configs
    /\ \E w \in Worlds :
          /\ scene = SceneOf(w)
          /\ worldMeshes = [isNull |-> FALSE, list |-> WorldIds(w)]
    /\ IF HasWorldMeshes(worldMeshes)
       THEN /\ position = PlaceOnGroundTarget(worldMeshes)
            /\ mesh = [ConstructedMesh EXCEPT !.position = PlaceOnGroundTarget(worldMeshes)]
            /\ frame = [NoFrame EXCEPT !.op = "placeOnGround"]
       ELSE /\ position = ConstructedPosition
            /\ mesh = ConstructedMesh
            /\ frame = NoFrame
    /\ verticalVelocity = 0
    /\ isGrounded = FALSE
    /\ isMoving = FALSE
    /\ flyMode = FALSE
    /\ isPaused = FALSE
    /\ gameState = "playing"
    /\ keyMap = {}
    /\ stats = [frameCount |-> 0, deltaTime |-> 0]
    /\ clock = ClockStart
    /\ playerScaleFactor = scaleFactor
    /\ assetManager = NewAssetManager
    /\ inputManager = NewInputManager
    /\ keyEvents = NoKeyEvents
    /\ panels = NewPanels
    /\ cameraController = NewCameraController

(***************************************************************************)
(* Game.update, one render-loop callback.                                  *)
(***************************************************************************)
\* deltaTime is the time since the last unpaused callback; stats.frameCount
\* counts up to MaxFrames and from there on cycles through 1..MaxFrames
NextFrameCount == IF stats.frameCount < MaxFrames THEN stats.frameCount + 1 ELSE 1

GameUpdateWith(deltaTime) ==
    IF isPaused \/ gameState = "paused"
    THEN UNCHANGED vars
    ELSE /\ stats' = [frameCount |-> NextFrameCount, deltaTime |-> deltaTime]
         /\ PlayerUpdate(keyMap, worldMeshes, deltaTime, flyMode)
         /\ UNCHANGED <<cfg, scene, worldMeshes, flyMode, isPaused, gameState, keyMap, clock,
                        playerScaleFactor, assetManager, inputManager,
                   keyEvents, panels, cameraController>>

GameUpdate == \E deltaTime \in DeltaTimes : GameUpdateWith(deltaTime)

\* engine.runRenderLoop: the engine calls Game.update on every frame it
\* renders, so the frame statistics keep advancing
RenderLoopTick ==
    \E deltaTime \in DeltaTimes :
        stats' = [frameCount |-> NextFrameCount, deltaTime |-> deltaTime]

\* a render-loop callback within the frame budget of the model
Frame ==
    /\ stats.frameCount < MaxFrames
    /\ GameUpdate

(***************************************************************************)
(* InputManager: keydown / keyup on a bound key, and the handlers Game     *)
(* registers with addKeyHandler.                                           *)
(***************************************************************************)
KeyDown(k) ==
    /\ keyMap' = keyMap \cup {k}
    /\ UNCHANGED <<cfg, scene, worldMeshes, mesh, position, verticalVelocity, isGrounded,
                   isMoving, flyMode, isPaused, gameState, stats, frame, clock,
                   playerScaleFactor, assetManager, inputManager,
                   keyEvents, panels, cameraController>>

KeyUp(k) ==
    /\ k \in keyMap
    /\ keyMap' = keyMap \ {k}
    /\ UNCHANGED <<cfg, scene, worldMeshes, mesh, position, verticalVelocity, isGrounded,
                   isMoving, flyMode, isPaused, gameState, stats, frame, clock,
                   playerScaleFactor, assetManager, inputManager,
                   keyEvents, panels, cameraController>>

\* keydown of KeyG: the fly-mode toggle
KeyG ==
    /\ flyMode' = ~flyMode
    /\ UNCHANGED <<cfg, scene, worldMeshes, mesh, position, verticalVelocity, isGrounded,
                   isMoving, isPaused, gameState, keyMap, stats, frame, clock,
                   playerScaleFactor, assetManager, inputManager,
                   keyEvents, panels, cameraController>>

Next ==
    \/ Frame
    \/ \E k \in Keys : KeyDown(k)
    \/ \E k \in Keys : KeyUp(k)
    \/ KeyG

Spec == Init /\ [][Next]_vars

(***************************************************************************)
(* Player.findGround on its own: the scene, the worldMeshes argument and   *)
(* the player's position range over the sets below.                        *)
(***************************************************************************)
ProbeWorlds == {"none", "flat", "ledge", "seam", "sky", "ghost"}

\* the worldMeshes argument: null, empty, or some meshes of the loaded model
WorldMeshesArgs(w) ==
    {[isNull |-> TRUE, list |-> {}]}
        \cup {[isNull |-> FALSE, list |-> l] : l \in SUBSET WorldIds(w)}

\* over the spawn point, with the centre line just past the ledge's edge, clear
\* of the ledge, and over the test box
ProbeSpots ==
    { [x |-> 0 - 16 * 10^5, z |-> SpawnZ],
      [x |-> 0 - 16 * 10^5, z |-> SpawnZ + 30000],
      [x |-> 0 - 16 * 10^5, z |-> SpawnZ + 80000],
      [x |-> 0 - 3 * 10^5, z |-> 0] }

\* heights of the envelope bottom
ProbeHeights == {10^5, 7 * 10^5, 0 - 9 * 10^5, 30 * 10^5}

ProbePositions ==
    {[x |-> q.x, y |-> h + ellipsoid.y, z |-> q.z] : q \in ProbeSpots, h \in ProbeHeights}

ProbeInit ==
    /\ cfg = DefaultConfig
    /\ \E w \in ProbeWorlds :
          /\ scene = SceneOf(w)
          /\ worldMeshes \in WorldMeshesArgs(w)
    /\ position = ConstructedPosition
    /\ mesh = ConstructedMesh
    /\ frame = NoFrame
    /\ verticalVelocity = 0
    /\ isGrounded = FALSE
    /\ isMoving = FALSE
    /\ flyMode = FALSE
    /\ isPaused = FALSE
    /\ gameState = "playing"
    /\ keyMap = {}
    /\ stats = [frameCount |-> 0, deltaTime |-> 0]
    /\ clock = ClockStart
    /\ playerScaleFactor = scaleFactor
    /\ assetManager = NewAssetManager
    /\ inputManager = NewInputManager
    /\ keyEvents = NoKeyEvents
    /\ panels = NewPanels
    /\ cameraController = NewCameraController

\* Player.setPosition(p)
SetPosition(p) ==
    /\ position' = p
    /\ mesh' = [mesh EXCEPT !.position = p]
    /\ frame' = [NoFrame EXCEPT !.op = "setPosition"]
    /\ UNCHANGED <<cfg, scene, worldMeshes, verticalVelocity, isGrounded, isMoving,
                   flyMode, isPaused, gameState, keyMap, stats, clock,
                   playerScaleFactor, assetManager, inputManager,
                   keyEvents, panels, cameraController>>

\* a call of Player.findGround(worldMeshes); frame records what it returned
Probe ==
    /\ LET call == FindGroundCall(worldMeshes)
       IN  frame' = [NoFrame EXCEPT !.op = "findGround",
                                    !.groundHit = call.bestHit,
                                    !.rays = call.rays]
    /\ UNCHANGED <<cfg, scene, worldMeshes, mesh, position, verticalVelocity, isGrounded,
                   isMoving, flyMode, isPaused, gameState, keyMap, stats, clock,
                   playerScaleFactor, assetManager, inputManager,
                   keyEvents, panels, cameraController>>

NextProbe ==
    \/ \E p \in ProbePositions : SetPosition(p)
    \/ Probe

SpecProbe == ProbeInit /\ [][NextProbe]_vars

(***************************************************************************)
(* Free fall onto the floor of the loaded model with the configuration of  *)
(* ConfigManager.getDefaultConfig, no key down, every frame with the same  *)
(* deltaTime.  The render loop calls Game.update on every frame.           *)
(***************************************************************************)
\* verticalVelocity is tracked down to -MaxFallSpeed
MaxFallSpeed == 6000000

LandingHeights == {10^5, 3 * 10^5, 10 * 10^5, 25 * 10^5}

LandingInit ==
    /\ cfg = DefaultConfig
    /\ scene = SceneOf("flat")
    /\ worldMeshes = [isNull |-> FALSE, list |-> WorldIds("flat")]
    /\ \E h \in LandingHeights :
          /\ position = [x |-> 0 - 16 * 10^5, y |-> h + ellipsoid.y, z |-> SpawnZ]
          /\ mesh = [ConstructedMesh EXCEPT !.position = position]
    /\ frame = [NoFrame EXCEPT !.op = "setPosition"]
    /\ verticalVelocity = 0
    /\ isGrounded = FALSE
    /\ isMoving = FALSE
    /\ flyMode = FALSE
    /\ isPaused = FALSE
    /\ gameState = "playing"
    /\ keyMap = {}
    /\ stats = [frameCount |-> 0, deltaTime |-> 0]
    /\ clock = ClockStart
    /\ playerScaleFactor = scaleFactor
    /\ assetManager = NewAssetManager
    /\ inputManager = NewInputManager
    /\ keyEvents = NoKeyEvents
    /\ panels = NewPanels
    /\ cameraController = NewCameraController

\* Game.update once verticalVelocity has left the tracked range: the frame
\* runs as ever, the velocity is kept at its last tracked value
TerminalFrame(deltaTime) ==
    LET r == UpdateNormalMode(keyMap, HorizontalMove(keyMap, deltaTime), worldMeshes,
                              deltaTime)
    IN  /\ stats' = [frameCount |-> NextFrameCount, deltaTime |-> deltaTime]
        /\ mesh' = [mesh EXCEPT !.position = r.meshPosition,
                                !.checkCollisions = r.checkCollisions]
        /\ position' = r.meshPosition
        /\ isGrounded' = r.isGrounded
        /\ isMoving' = FALSE
        /\ verticalVelocity' = verticalVelocity
        /\ frame' = r.frame
        /\ UNCHANGED <<cfg, scene, worldMeshes, flyMode, isPaused, gameState, keyMap, clock,
                       playerScaleFactor, assetManager, inputManager,
                   keyEvents, panels, cameraController>>

LandingFrame ==
    \E deltaTime \in DeltaTimes :
        /\ stats.frameCount = 0 \/ deltaTime = stats.deltaTime
        /\ IF verticalVelocity + gravity * deltaTime >= 0 - MaxFallSpeed
           THEN GameUpdateWith(deltaTime)
           ELSE TerminalFrame(deltaTime)

SpecLanding == LandingInit /\ [][LandingFrame]_vars /\ WF_stats(RenderLoopTick)

(***************************************************************************)
(* The player left over the floor of the loaded model, no key down, with a *)
(* stored configuration that sets player.groundTolerance and               *)
(* player.smoothingFactor.                                                 *)
(***************************************************************************)
SettleConfigs ==
    { [groundTolerance |-> 10000, smoothingFactor |-> 50],
      [groundTolerance |-> 100000, smoothingFactor |-> 10],
      [groundTolerance |-> 100000, smoothingFactor |-> 50] }

\* gaps between the envelope bottom and the floor
SettleGaps == {0, 30000, 60000, 90000, 2 * 10^5, 4 * 10^5, 6 * 10^5, 9 * 10^5}

SettleInit ==
    /\ cfg \in SettleConfigs
    /\ scene = SceneOf("flat")
    /\ worldMeshes = [isNull |-> FALSE, list |-> WorldIds("flat")]
    /\ \E g \in SettleGaps :
          /\ position = [x |-> 0 - 16 * 10^5, y |-> g + ellipsoid.y, z |-> SpawnZ]
          /\ mesh = [ConstructedMesh EXCEPT !.position = position]
    /\ frame = [NoFrame EXCEPT !.op = "setPosition"]
    /\ verticalVelocity = 0
    /\ isGrounded = FALSE
    /\ isMoving = FALSE
    /\ flyMode = FALSE
    /\ isPaused = FALSE
    /\ gameState = "playing"
    /\ keyMap = {}
    /\ stats = [frameCount |-> 0, deltaTime |-> 0]
    /\ clock = ClockStart
    /\ playerScaleFactor = scaleFactor
    /\ assetManager = NewAssetManager
    /\ inputManager = NewInputManager
    /\ keyEvents = NoKeyEvents
    /\ panels = NewPanels
    /\ cameraController = NewCameraController

SpecSettle == SettleInit /\ [][GameUpdate]_vars /\ WF_stats(RenderLoopTick)

(***************************************************************************)
(* Player.placeOnGround on its own, as Game.setupScene and Game.reset call *)
(* it: before the first frame or after some frames of a fall.              *)
(***************************************************************************)
SpawnStart ==
    [x |-> 0 - 16 * 10^5, y |-> SpawnRayStartCoef * scaleFactor, z |-> 51 * 10^5]

\* the long downward ray of placeOnGround
SpawnRay(wm) ==
    PickWithRay(SpawnStart, SpawnRayLengthCoef * scaleFactor,
                {m \in DOMAIN scene : m \in wm.list /\ scene[m].checkCollisions})

\* Player.placeOnGround(worldMeshes); frame records the branch taken, the
\* ray cast (if any) and what it hit
PlaceOnGround ==
    LET none == ~HasWorldMeshes(worldMeshes)
        groundHit == IF none THEN NoHit ELSE SpawnRay(worldMeshes)
        target == PlaceOnGroundTarget(worldMeshes)
    IN  /\ position' = target
        /\ mesh' = [mesh EXCEPT !.position = target]
        /\ verticalVelocity' = 0
        /\ frame' = [NoFrame EXCEPT
                        !.op = "placeOnGround",
                        !.mode = IF none THEN "noMeshes"
                                 ELSE IF groundHit.hit THEN "hit" ELSE "miss",
                        !.groundHit = groundHit,
                        !.rays = IF none THEN << >> ELSE << SpawnStart >>]
        /\ UNCHANGED <<cfg, scene, worldMeshes, isGrounded, isMoving, flyMode, isPaused,
                       gameState, keyMap, stats, clock, playerScaleFactor, assetManager, inputManager,
                   keyEvents, panels, cameraController>>

SpawnInit ==
    /\ cfg = [groundTolerance |-> 10000, smoothingFactor |-> 100]
    /\ \E w \in ProbeWorlds :
          /\ scene = SceneOf(w)
          /\ worldMeshes \in WorldMeshesArgs(w)
    /\ position = ConstructedPosition
    /\ mesh = ConstructedMesh
    /\ frame = NoFrame
    /\ verticalVelocity = 0
    /\ isGrounded = FALSE
    /\ isMoving = FALSE
    /\ flyMode = FALSE
    /\ isPaused = FALSE
    /\ gameState = "playing"
    /\ keyMap = {}
    /\ stats = [frameCount |-> 0, deltaTime |-> 0]
    /\ clock = ClockStart
    /\ playerScaleFactor = scaleFactor
    /\ assetManager = NewAssetManager
    /\ inputManager = NewInputManager
    /\ keyEvents = NoKeyEvents
    /\ panels = NewPanels
    /\ cameraController = NewCameraController

NextSpawn ==
    \/ PlaceOnGround
    \/ Frame

SpecSpawn == SpawnInit /\ [][NextSpawn]_vars

(***************************************************************************)
(* Flying: the game over the flat floor of the loaded model with the keys  *)
(* fly mode reads (forward, jump, crouch) and the fly-mode toggle.         *)
(***************************************************************************)
FlyKeys == {"KeyW", "Space", "ControlLeft"}

FlyInit ==
    /\ cfg = [groundTolerance |-> 10000, smoothingFactor |-> 100]
    /\ scene = SceneOf("flat")
    /\ worldMeshes = [isNull |-> FALSE, list |-> WorldIds("flat")]
    /\ position = PlaceOnGroundTarget(worldMeshes)
    /\ mesh = [ConstructedMesh EXCEPT !.position = PlaceOnGroundTarget(worldMeshes)]
    /\ frame = [NoFrame EXCEPT !.op = "placeOnGround"]
    /\ verticalVelocity = 0
    /\ isGrounded = FALSE
    /\ isMoving = FALSE
    /\ flyMode = FALSE
    /\ isPaused = FALSE
    /\ gameState = "playing"
    /\ keyMap = {}
    /\ stats = [frameCount |-> 0, deltaTime |-> 0]
    /\ clock = ClockStart
    /\ playerScaleFactor = scaleFactor
    /\ assetManager = NewAssetManager
    /\ inputManager = NewInputManager
    /\ keyEvents = NoKeyEvents
    /\ panels = NewPanels
    /\ cameraController = NewCameraController

NextFly ==
    \/ Frame
    \/ \E k \in FlyKeys : KeyDown(k)
    \/ \E k \in FlyKeys : KeyUp(k)
    \/ KeyG

SpecFly == FlyInit /\ [][NextFly]_vars

(***************************************************************************)
(* The position panel: the Apply button parses the three text fields and   *)
(* hands the vector to the callback Game registered with setOnSetPosition, *)
(* which calls Player.setPosition. The game runs over the flat floor, with *)
(* the keys of the main specification and the fly-mode toggle.             *)
(***************************************************************************)
\* parseFloat of a text field, in the model's length unit
ParseFloat(text) ==
    CASE text = "5" -> 5 * 10^5
      [] text = "-16" -> 0 - 16 * 10^5
      [] text = "51" -> 51 * 10^5
      [] text = "0" -> 0
      [] OTHER -> NaN

\* parseFloat(text) || 0: NaN and 0 are falsy
ParseFloatOrZero(text) ==
    LET v == ParseFloat(text) IN IF v = NaN \/ v = 0 THEN 0 ELSE v

\* the contents of the x, y and z fields when the button is pressed
PanelTexts == { <<"", "", "">>, <<"-16", "5", "51">>, <<"0", "abc", "5">> }

ApplyPosition(texts) ==
    SetPosition([x |-> ParseFloatOrZero(texts[1]),
                 y |-> ParseFloatOrZero(texts[2]),
                 z |-> ParseFloatOrZero(texts[3])])

NextInput ==
    \/ Frame
    \/ \E k \in Keys : KeyDown(k)
    \/ \E k \in Keys : KeyUp(k)
    \/ KeyG
    \/ \E texts \in PanelTexts : ApplyPosition(texts)

SpecInput == FlyInit /\ [][NextInput]_vars

(***************************************************************************)
(* The render loop under the clock: time passes, the engine calls          *)
(* Game.update, which measures deltaTime against stats.lastTime, and the   *)
(* Escape key opens and closes the settings panel, which pauses the game.  *)
(* clock.lastCallback and clock.previousCallback are the times of the last *)
(* two callbacks, paused or not.                                           *)
(***************************************************************************)
MaxTime == 6

ClockInit ==
    /\ cfg = [groundTolerance |-> 10000, smoothingFactor |-> 100]
    /\ scene = SceneOf("flat")
    /\ worldMeshes = [isNull |-> FALSE, list |-> WorldIds("flat")]
    /\ position = PlaceOnGroundTarget(worldMeshes)
    /\ mesh = [ConstructedMesh EXCEPT !.position = PlaceOnGroundTarget(worldMeshes)]
    /\ frame = [NoFrame EXCEPT !.op = "placeOnGround"]
    /\ verticalVelocity = 0
    /\ isGrounded = FALSE
    /\ isMoving = FALSE
    /\ flyMode = FALSE
    /\ isPaused = FALSE
    /\ gameState = "playing"
    /\ keyMap = {}
    /\ stats = [frameCount |-> 0, deltaTime |-> 0, lastTime |-> ClockStart.now]
    /\ clock = ClockStart
    /\ playerScaleFactor = scaleFactor
    /\ assetManager = NewAssetManager
    /\ inputManager = NewInputManager
    /\ keyEvents = NoKeyEvents
    /\ panels = NewPanels
    /\ cameraController = NewCameraController

\* performance.now() advances
Tick ==
    /\ clock.now < MaxTime
    /\ clock' = [clock EXCEPT !.now = @ + 1]
    /\ UNCHANGED <<cfg, scene, worldMeshes, mesh, position, verticalVelocity, isGrounded,
                   isMoving, flyMode, isPaused, gameState, keyMap, stats, frame,
                   playerScaleFactor, assetManager, inputManager,
                   keyEvents, panels, cameraController>>

\* a pause test that reads the flag of the game only
PausedByFlag(paused, state) == paused

\* the test at the head of Game.update
GamePaused(paused, state) == paused \/ state = "paused"

\* a render-loop callback at the current time: Game.update
TimedGameUpdate ==
    /\ clock.now > clock.lastCallback
    /\ clock' = [clock EXCEPT !.lastCallback = clock.now,
                              !.previousCallback = clock.lastCallback]
    /\ IF GamePaused(isPaused, gameState)
       THEN UNCHANGED <<cfg, scene, worldMeshes, mesh, position, verticalVelocity,
                        isGrounded, isMoving, flyMode, isPaused, gameState, keyMap,
                        stats, frame, playerScaleFactor, assetManager, inputManager,
                   keyEvents, panels, cameraController>>
       ELSE LET currentTime == clock.now
                deltaTime == currentTime - stats.lastTime
            IN  /\ stats' = [frameCount |-> NextFrameCount,
                             deltaTime |-> deltaTime,
                             lastTime |-> currentTime]
                /\ PlayerUpdate(keyMap, worldMeshes, deltaTime, flyMode)
                /\ UNCHANGED <<cfg, scene, worldMeshes, flyMode, isPaused, gameState,
                               keyMap, playerScaleFactor, assetManager, inputManager,
                   keyEvents, panels, cameraController>>

\* keydown of Escape: closeAllPanels when the settings panel is open, else
\* showSettingsPanel; no other panel is open in this specification, so the
\* settings panel is open exactly when gameState is "paused"
Escape ==
    /\ gameState' = IF gameState = "paused" THEN "playing" ELSE "paused"
    /\ UNCHANGED <<cfg, scene, worldMeshes, mesh, position, verticalVelocity, isGrounded,
                   isMoving, flyMode, isPaused, keyMap, stats, frame, clock,
                   playerScaleFactor, assetManager, inputManager,
                   keyEvents, panels, cameraController>>

NextClock ==
    \/ Tick
    \/ TimedGameUpdate
    \/ Escape
    \/ KeyDown("Space")
    \/ KeyUp("Space")

SpecClock == ClockInit /\ [][NextClock]_vars

(***************************************************************************)
(* Pausing: the clocked game with Game.togglePause next to the Escape key. *)
(* After togglePause the settings panel can be closed while gameState is   *)
(* 'paused'; Escape then opens it and leaves gameState as it is, a step    *)
(* that changes no variable here, so the steps of Escape cover the         *)
(* handler's.                                                              *)
(***************************************************************************)
TogglePause ==
    /\ isPaused' = ~isPaused
    /\ gameState' = IF ~isPaused THEN "paused" ELSE "playing"
    /\ UNCHANGED <<cfg, scene, worldMeshes, mesh, position, verticalVelocity, isGrounded,
                   isMoving, flyMode, keyMap, stats, frame, clock, playerScaleFactor, assetManager, inputManager,
                   keyEvents, panels, cameraController>>

NextPause ==
    \/ Tick
    \/ TimedGameUpdate
    \/ Escape
    \/ TogglePause
    \/ KeyDown("Space")
    \/ KeyUp("Space")

SpecPause == ClockInit /\ [][NextPause]_vars

(***************************************************************************)
(* Movement intent: the game over the flat floor with the four direction   *)
(* keys and the fly-mode toggle, keys changing between frames.             *)
(***************************************************************************)
MaxIntentFrames == 2

IntentKeys == {"KeyW", "KeyS", "KeyA", "KeyD"}

IntentFrame ==
    /\ stats.frameCount < MaxIntentFrames
    /\ GameUpdate

NextIntent ==
    \/ IntentFrame
    \/ \E k \in IntentKeys : KeyDown(k)
    \/ \E k \in IntentKeys : KeyUp(k)
    \/ KeyG

SpecIntent == FlyInit /\ [][NextIntent]_vars

(***************************************************************************)
(* The horizontal displacement as a function of the key map: frames of the *)
(* game over the flat floor, in either mode, for every combination of the  *)
(* direction keys and the run key held from before the first frame.        *)
(***************************************************************************)
MoveKeys == {"KeyW", "KeyS", "KeyA", "KeyD", "ShiftLeft"}

MoveInit ==
    /\ cfg = [groundTolerance |-> 10000, smoothingFactor |-> 100]
    /\ scene = SceneOf("flat")
    /\ worldMeshes = [isNull |-> FALSE, list |-> WorldIds("flat")]
    /\ position = PlaceOnGroundTarget(worldMeshes)
    /\ mesh = [ConstructedMesh EXCEPT !.position = PlaceOnGroundTarget(worldMeshes)]
    /\ frame = [NoFrame EXCEPT !.op = "placeOnGround"]
    /\ verticalVelocity = 0
    /\ isGrounded = FALSE
    /\ isMoving = FALSE
    /\ flyMode \in BOOLEAN
    /\ isPaused = FALSE
    /\ gameState = "playing"
    /\ keyMap \in SUBSET MoveKeys
    /\ stats = [frameCount |-> 0, deltaTime |-> 0]
    /\ clock = ClockStart
    /\ playerScaleFactor = scaleFactor
    /\ assetManager = NewAssetManager
    /\ inputManager = NewInputManager
    /\ keyEvents = NoKeyEvents
    /\ panels = NewPanels
    /\ cameraController = NewCameraController

SpecMove == MoveInit /\ [][Frame]_vars

(***************************************************************************)
(* A frame in which the engine's mesh.moveWithCollisions raises.  Neither  *)
(* updateNormalMode, Player.update, Game.update nor the render-loop        *)
(* callback has a try block: the exception leaves them all at the call, so *)
(* the statements before it have run and those after it have not.  The     *)
(* mesh is taken not to have moved.  frame.op = "updateRaised" marks an    *)
(* update left this way.                                                   *)
(***************************************************************************)
GameUpdateRaised(deltaTime) ==
    /\ ~(isPaused \/ gameState = "paused")
    /\ ~flyMode
    /\ stats' = [frameCount |-> NextFrameCount, deltaTime |-> deltaTime]
    /\ LET d == MoveDirection(keyMap)
           r == UpdateNormalMode(keyMap, HorizontalMove(keyMap, deltaTime), worldMeshes,
                                 deltaTime)
           targetY == Add(r.frame.groundHit.pickedPoint.y, ellipsoid.y)
           y1 == IF r.frame.grounded THEN CorrectedY(mesh.position.y, targetY)
                 ELSE mesh.position.y
       IN  /\ isMoving' = (LengthSquared(d) > 0)
           /\ mesh' = [position |-> [mesh.position EXCEPT !.y = y1],
                       checkCollisions |-> TRUE,
                       rotationY |-> IF LengthSquared(d) > 0 THEN Atan2Deg(d)
                                     ELSE mesh.rotationY]
           /\ verticalVelocity' = r.verticalVelocity
           /\ isGrounded' = r.isGrounded
           /\ frame' = [r.frame EXCEPT !.op = "updateRaised"]
    /\ UNCHANGED <<cfg, scene, worldMeshes, position, flyMode, isPaused, gameState,
                   keyMap, clock, playerScaleFactor, assetManager, inputManager,
                   keyEvents, panels, cameraController>>

RaisedFrame ==
    /\ stats.frameCount < MaxFrames
    /\ \E deltaTime \in DeltaTimes : GameUpdateRaised(deltaTime)

NextRaise ==
    \/ Frame
    \/ RaisedFrame

SpecRaise == SettleInit /\ [][NextRaise]_vars

(***************************************************************************)
(* The game with nothing of the model under the player: no model loaded    *)
(* (the player stays as constructed), or a model the spawn ray misses (the *)
(* player is put at the fallback position).  No key down, every frame with *)
(* the same deltaTime, the render loop calling Game.update on every frame. *)
(***************************************************************************)
FallbackWorlds == {"none", "away"}

FallbackInit ==
    /\ cfg \in SettleConfigs
    /\ \E w \in FallbackWorlds :
          /\ scene = SceneOf(w)
          /\ worldMeshes = [isNull |-> FALSE, list |-> WorldIds(w)]
    /\ IF HasWorldMeshes(worldMeshes)
       THEN /\ position = PlaceOnGroundTarget(worldMeshes)
            /\ mesh = [ConstructedMesh EXCEPT !.position = PlaceOnGroundTarget(worldMeshes)]
            /\ frame = [NoFrame EXCEPT !.op = "placeOnGround"]
       ELSE /\ position = ConstructedPosition
            /\ mesh = ConstructedMesh
            /\ frame = NoFrame
    /\ verticalVelocity = 0
    /\ isGrounded = FALSE
    /\ isMoving = FALSE
    /\ flyMode = FALSE
    /\ isPaused = FALSE
    /\ gameState = "playing"
    /\ keyMap = {}
    /\ stats = [frameCount |-> 0, deltaTime |-> 0]
    /\ clock = ClockStart
    /\ playerScaleFactor = scaleFactor
    /\ assetManager = NewAssetManager
    /\ inputManager = NewInputManager
    /\ keyEvents = NoKeyEvents
    /\ panels = NewPanels
    /\ cameraController = NewCameraController

\* no colliding face lies under the player's centre at or below the bottom
\* of its envelope, and none of the five probes finds one
NothingBelow ==
    /\ ~FindGround(worldMeshes).hit
    /\ \A m \in DOMAIN scene :
          ~ /\ scene[m].checkCollisions
            /\ scene[m].x0 <= mesh.position.x /\ mesh.position.x <= scene[m].x1
            /\ scene[m].z0 <= mesh.position.z /\ mesh.position.z <= scene[m].z1
            /\ scene[m].top <= mesh.position.y - ellipsoid.y

\* Game.update once verticalVelocity has left the tracked range in a fall
\* with nothing below: the frame runs as ever and finds nothing, the height
\* and the velocity are kept at their last tracked values
FallenFrame(deltaTime) ==
    LET r == UpdateNormalMode(keyMap, HorizontalMove(keyMap, deltaTime), worldMeshes,
                              deltaTime)
    IN  /\ NothingBelow
        /\ stats' = [frameCount |-> NextFrameCount, deltaTime |-> deltaTime]
        /\ mesh' = [mesh EXCEPT !.checkCollisions = r.checkCollisions]
        /\ isGrounded' = r.isGrounded
        /\ isMoving' = FALSE
        /\ frame' = r.frame
        /\ UNCHANGED <<cfg, scene, worldMeshes, position, verticalVelocity, flyMode,
                       isPaused, gameState, keyMap, clock, playerScaleFactor, assetManager, inputManager,
                   keyEvents, panels, cameraController>>

FallbackFrame ==
    \E deltaTime \in DeltaTimes :
        /\ stats.frameCount = 0 \/ deltaTime = stats.deltaTime
        /\ IF verticalVelocity + gravity * deltaTime >= 0 - MaxFallSpeed
           THEN GameUpdateWith(deltaTime)
           ELSE FallenFrame(deltaTime)

SpecFallback == FallbackInit /\ [][FallbackFrame]_vars /\ WF_stats(RenderLoopTick)

(***************************************************************************)
(* Player.findGround of a player constructed with any scaleFactor, over    *)
(* the flat floor of the loaded model: the envelope, the ray origins and   *)
(* the ray length as functions of the scale.                               *)
(***************************************************************************)
MaxScale == 20

Scales == 1..MaxScale

\* heights of the envelope bottom over the floor
ScaledHeights == {10^5, 15 * 10^5, 25 * 10^5}

\* origin of ray i of findGround for the player as it is
ScaledRayOrigin(i) ==
    [x |-> mesh.position.x + RayOffsetsFor(playerScaleFactor)[i].x,
     y |-> Sub(mesh.position.y, EllipsoidFor(playerScaleFactor).y),
     z |-> mesh.position.z + RayOffsetsFor(playerScaleFactor)[i].z]

\* findGround: the hit of smallest distance, the first of them in ray order
ScaledFindGround(wm) ==
    LET hit == [i \in 1..5 |->
                   PickWithRay(ScaledRayOrigin(i), RayLength,
                               {m \in DOMAIN scene : FindGroundPredicate(m, wm)})]
        hits == {i \in 1..5 : hit[i].hit}
    IN  [bestHit |-> IF hits = {} THEN NoHit
                     ELSE hit[CHOOSE i \in hits :
                                 \A j \in hits :
                                     \/ hit[i].distance < hit[j].distance
                                     \/ hit[i].distance = hit[j].distance /\ i <= j],
         rays |-> [i \in 1..5 |-> ScaledRayOrigin(i)]]

ScaleInit ==
    /\ cfg = DefaultConfig
    /\ scene = SceneOf("flat")
    /\ worldMeshes = [isNull |-> FALSE, list |-> WorldIds("flat")]
    /\ playerScaleFactor \in Scales
    /\ assetManager = NewAssetManager
    /\ inputManager = NewInputManager
    /\ keyEvents = NoKeyEvents
    /\ panels = NewPanels
    /\ cameraController = NewCameraController
    /\ position = ConstructedPosition
    /\ mesh = ConstructedMesh
    /\ frame = NoFrame
    /\ verticalVelocity = 0
    /\ isGrounded = FALSE
    /\ isMoving = FALSE
    /\ flyMode = FALSE
    /\ isPaused = FALSE
    /\ gameState = "playing"
    /\ keyMap = {}
    /\ stats = [frameCount |-> 0, deltaTime |-> 0]
    /\ clock = ClockStart

\* setPosition with the envelope bottom h above the floor
ScaledSetPosition ==
    \E h \in ScaledHeights :
        SetPosition([x |-> 0 - 16 * 10^5,
                     y |-> h + EllipsoidFor(playerScaleFactor).y,
                     z |-> SpawnZ])

ScaledProbe ==
    /\ LET call == ScaledFindGround(worldMeshes)
       IN  frame' = [NoFrame EXCEPT !.op = "findGround",
                                    !.groundHit = call.bestHit,
                                    !.rays = call.rays]
    /\ UNCHANGED <<cfg, scene, worldMeshes, mesh, position, verticalVelocity, isGrounded,
                   isMoving, flyMode, isPaused, gameState, keyMap, stats, clock,
                   playerScaleFactor, assetManager, inputManager,
                   keyEvents, panels, cameraController>>

NextScale ==
    \/ ScaledSetPosition
    \/ ScaledProbe

SpecScale == ScaleInit /\ [][NextScale]_vars

(***************************************************************************)
(* The controls of a running game: the key handlers Game.setupEventHandlers *)
(* registers through InputManager.addKeyHandler, the close buttons of the  *)
(* panels, the window's blur listeners (the one caller of                  *)
(* Game.togglePause), the camera controller's setActiveCamera, and         *)
(* Game.reset.  No frame runs here.                                        *)
(***************************************************************************)
CameraModes == {"arcRotate", "free", "follow"}
LowerRadiusLimit == 3 * 16
UpperRadiusLimit == 100 * 16
ResetRadius == 50 * 16

\* the variables no control touches
controlsRest == <<cfg, scene, worldMeshes, isGrounded, isMoving, keyMap, stats, clock,
                  playerScaleFactor, assetManager>>
playerPlace == <<mesh, position, verticalVelocity, frame>>

\* UIManager.isAnyPanelOpen
IsAnyPanelOpen ==
    panels.activePanel # "none" \/ panels.position \/ panels.debug \/ panels.help

\* a toggleCameraMode that steps through the modes the other way round
ToggledModeBackward(mode) ==
    CASE mode = "arcRotate" -> "follow"
      [] mode = "follow" -> "free"
      [] OTHER -> "arcRotate"

\* modes[(modes.indexOf(currentMode) + 1) % modes.length]
ToggledMode(mode) ==
    CASE mode = "arcRotate" -> "free"
      [] mode = "free" -> "follow"
      [] OTHER -> "arcRotate"

\* CameraController.setActiveCamera(mode) on the controller c
SetActiveCameraOn(c, mode) ==
    IF mode \notin CameraModes THEN c
    ELSE [c EXCEPT !.currentMode = mode, !.activeCamera = mode]

\* CameraController.setFarZoom(farZoom): the radius it leaves
FarZoomRadius(mode, radius, farZoom) ==
    IF mode # "arcRotate" THEN radius
    ELSE IF farZoom THEN Min(radius * 2, UpperRadiusLimit)
    ELSE Max(radius \div 2, LowerRadiusLimit)

\* the KeyY handler: setFarZoom(!getCurrentMode().includes('far')), and no
\* camera mode has 'far' in its name
KeyYRadius(mode, radius) == FarZoomRadius(mode, radius, mode \in CameraModes)

ControlsInit ==
    /\ cfg = DefaultConfig
    /\ \E w \in {"flat", "none"} :
          /\ scene = SceneOf(w)
          /\ worldMeshes = [isNull |-> FALSE, list |-> WorldIds(w)]
    /\ IF HasWorldMeshes(worldMeshes)
       THEN /\ position = PlaceOnGroundTarget(worldMeshes)
            /\ mesh = [ConstructedMesh EXCEPT !.position = PlaceOnGroundTarget(worldMeshes)]
            /\ frame = [NoFrame EXCEPT !.op = "placeOnGround"]
       ELSE /\ position = ConstructedPosition
            /\ mesh = ConstructedMesh
            /\ frame = NoFrame
    /\ verticalVelocity = 0
    /\ isGrounded = FALSE
    /\ isMoving = FALSE
    /\ flyMode = FALSE
    /\ isPaused = FALSE
    /\ gameState = "playing"
    /\ keyMap = {}
    /\ stats = [frameCount |-> 0, deltaTime |-> 0]
    /\ clock = ClockStart
    /\ playerScaleFactor = scaleFactor
    /\ assetManager = NewAssetManager
    /\ inputManager = NewInputManager
    /\ keyEvents = NoKeyEvents
    /\ panels = NewPanels
    /\ cameraController = NewCameraController

\* Escape: closeAllPanels when isAnyPanelOpen, else showSettingsPanel
KeyEscape ==
    /\ inputManager.isEnabled
    /\ IF IsAnyPanelOpen
       THEN /\ panels' = NewPanels
            /\ gameState' = "playing"
       ELSE /\ panels' = [panels EXCEPT !.settings = TRUE, !.activePanel = "settings"]
            /\ gameState' = "paused"
    /\ UNCHANGED <<controlsRest, playerPlace, flyMode, isPaused, inputManager, keyEvents,
                   cameraController>>

\* the close button of the settings panel: hideSettingsPanel
SettingsCloseButton ==
    /\ panels.settings
    /\ panels' = [panels EXCEPT !.settings = FALSE, !.activePanel = "none"]
    /\ gameState' = "playing"
    /\ UNCHANGED <<controlsRest, playerPlace, flyMode, isPaused, inputManager, keyEvents,
                   cameraController>>

\* F1: toggleDebugPanel
KeyF1 ==
    /\ inputManager.isEnabled
    /\ panels' = [panels EXCEPT !.debug = ~panels.debug]
    /\ UNCHANGED <<controlsRest, playerPlace, flyMode, isPaused, gameState, inputManager,
                   keyEvents, cameraController>>

\* F2: toggleHelpPanel
KeyF2 ==
    /\ inputManager.isEnabled
    /\ panels' = [panels EXCEPT !.help = ~panels.help]
    /\ UNCHANGED <<controlsRest, playerPlace, flyMode, isPaused, gameState, inputManager,
                   keyEvents, cameraController>>

\* KeyP: togglePositionPanel, that is hidePositionPanel or showPositionPanel
KeyP ==
    /\ inputManager.isEnabled
    /\ panels' = IF panels.position
                 THEN [panels EXCEPT !.position = FALSE, !.activePanel = "none"]
                 ELSE [panels EXCEPT !.position = TRUE, !.activePanel = "position"]
    /\ UNCHANGED <<controlsRest, playerPlace, flyMode, isPaused, gameState, inputManager,
                   keyEvents, cameraController>>

\* the close button of the position panel: hidePositionPanel
PositionCloseButton ==
    /\ panels.position
    /\ panels' = [panels EXCEPT !.position = FALSE, !.activePanel = "none"]
    /\ UNCHANGED <<controlsRest, playerPlace, flyMode, isPaused, gameState, inputManager,
                   keyEvents, cameraController>>

\* a blur event of the window of a running game: InputManager clears keyMap,
\* the global handler calls game.togglePause()
WindowBlur ==
    /\ inputManager' = [inputManager EXCEPT !.keyMap = [k \in Keys |-> "absent"]]
    /\ keyEvents' = NoKeyEvents
    /\ isPaused' = ~isPaused
    /\ gameState' = IF ~isPaused THEN "paused" ELSE "playing"
    /\ UNCHANGED <<controlsRest, playerPlace, flyMode, panels, cameraController>>

\* KeyF: toggleCameraMode
KeyF ==
    /\ inputManager.isEnabled
    /\ cameraController' =
          SetActiveCameraOn(cameraController, ToggledMode(cameraController.currentMode))
    /\ UNCHANGED <<controlsRest, playerPlace, flyMode, isPaused, gameState, inputManager,
                   keyEvents, panels>>

\* setActiveCamera(mode), with a mode the controller has or one it has not
SetActiveCamera ==
    /\ \E mode \in CameraModes \cup {"orbit"} :
          cameraController' = SetActiveCameraOn(cameraController, mode)
    /\ UNCHANGED <<controlsRest, playerPlace, flyMode, isPaused, gameState, inputManager,
                   keyEvents, panels>>

\* KeyY: the far-zoom handler
KeyY ==
    /\ inputManager.isEnabled
    /\ cameraController' =
          [cameraController EXCEPT
              !.radius = KeyYRadius(cameraController.currentMode, cameraController.radius)]
    /\ UNCHANGED <<controlsRest, playerPlace, flyMode, isPaused, gameState, inputManager,
                   keyEvents, panels>>

\* Game.reset: placeOnGround when there are world meshes, cameraController.reset(),
\* then this.configManager.reset(), which ConfigManager does not define (it has
\* resetToDefaults): the call raises a TypeError and the statements after it,
\* flyMode = false among them, do not run
GameReset ==
    LET none == ~HasWorldMeshes(worldMeshes)
        groundHit == IF none THEN NoHit ELSE SpawnRay(worldMeshes)
        target == PlaceOnGroundTarget(worldMeshes)
    IN  /\ IF none
           THEN UNCHANGED <<position, mesh, verticalVelocity>>
           ELSE /\ position' = target
                /\ mesh' = [mesh EXCEPT !.position = target]
                /\ verticalVelocity' = 0
        /\ cameraController' =
              IF cameraController.currentMode = "arcRotate"
              THEN [cameraController EXCEPT !.radius = ResetRadius]
              ELSE cameraController
        /\ frame' = [NoFrame EXCEPT
                        !.op = "reset",
                        !.mode = "raised",
                        !.groundHit = groundHit,
                        !.rays = IF none THEN << >> ELSE << SpawnStart >>]
        /\ UNCHANGED <<controlsRest, flyMode, isPaused, gameState, inputManager, keyEvents,
                       panels>>

NextControls ==
    \/ KeyEscape
    \/ SettingsCloseButton
    \/ KeyF1
    \/ KeyF2
    \/ PositionCloseButton
    \/ KeyP
    \/ WindowBlur
    \/ KeyF
    \/ SetActiveCamera
    \/ KeyY
    \/ KeyG
    \/ GameReset

SpecControls == ControlsInit /\ [][NextControls]_vars

(***************************************************************************)
(* The key map of a frame.  InputManager keeps an entry per key code, true *)
(* after a keydown and false after a keyup, and forgets all entries on     *)
(* blur, reset() and setEnabled(false).  Game.update asks getKeyMap() once *)
(* per frame and hands the answer to Player.update: here the variable      *)
(* keyMap is that answer, and keyEvents remembers what the claim about it  *)
(* speaks of, the last event processed per key since the entries were      *)
(* forgotten.                                                              *)
(***************************************************************************)
MaxKeyFrames == 2

\* a getKeyMap that copies every entry of keyMap, the false ones too
GetKeyMapEntries(km) == {k \in Keys : km[k] # "absent"}

\* InputManager.getKeyMap: a new object with the entries that are true
GetKeyMap(km) == {k \in Keys : km[k] = "true"}

keysRest == <<cfg, scene, worldMeshes, flyMode, clock, playerScaleFactor, assetManager,
              panels, cameraController>>
playerAndFrame == <<mesh, position, verticalVelocity, isGrounded, isMoving, frame, stats,
                    keyMap>>

\* the keydown listener of InputManager
InputKeyDown(k) ==
    /\ IF inputManager.isEnabled
       THEN /\ inputManager' = [inputManager EXCEPT !.keyMap[k] = "true"]
            /\ keyEvents' = [keyEvents EXCEPT ![k] = "down"]
       ELSE UNCHANGED <<inputManager, keyEvents>>
    /\ UNCHANGED <<keysRest, playerAndFrame, isPaused, gameState>>

\* the keyup listener of InputManager
InputKeyUp(k) ==
    /\ IF inputManager.isEnabled
       THEN /\ inputManager' = [inputManager EXCEPT !.keyMap[k] = "false"]
            /\ keyEvents' = [keyEvents EXCEPT ![k] = "up"]
       ELSE UNCHANGED <<inputManager, keyEvents>>
    /\ UNCHANGED <<keysRest, playerAndFrame, isPaused, gameState>>

\* InputManager.setEnabled(enabled)
SetEnabled(enabled) ==
    /\ inputManager' = [isEnabled |-> enabled,
                        keyMap |-> IF enabled THEN inputManager.keyMap
                                   ELSE NewInputManager.keyMap]
    /\ keyEvents' = IF enabled THEN keyEvents ELSE NoKeyEvents
    /\ UNCHANGED <<keysRest, playerAndFrame, isPaused, gameState>>

\* InputManager.reset()
InputReset ==
    /\ inputManager' = [inputManager EXCEPT !.keyMap = NewInputManager.keyMap]
    /\ keyEvents' = NoKeyEvents
    /\ UNCHANGED <<keysRest, playerAndFrame, isPaused, gameState>>

\* Game.update: the paused test, then getKeyMap() and Player.update with it
KeysFrame ==
    /\ stats.frameCount < MaxKeyFrames
    /\ IF isPaused \/ gameState = "paused"
       THEN UNCHANGED vars
       ELSE \E deltaTime \in DeltaTimes :
               /\ stats' = [frameCount |-> NextFrameCount, deltaTime |-> deltaTime]
               /\ keyMap' = GetKeyMap(inputManager.keyMap)
               /\ PlayerUpdate(GetKeyMap(inputManager.keyMap), worldMeshes, deltaTime,
                               flyMode)
               /\ UNCHANGED <<keysRest, isPaused, gameState, inputManager, keyEvents>>

NextKeys ==
    \/ KeysFrame
    \/ \E k \in Keys : InputKeyDown(k)
    \/ \E k \in Keys : InputKeyUp(k)
    \/ \E enabled \in BOOLEAN : SetEnabled(enabled)
    \/ InputReset
    \/ WindowBlur

SpecKeys == ControlsInit /\ [][NextKeys]_vars

(***************************************************************************)
(* AssetManager.loadModel.  An import is one call of                       *)
(* _loadModelInternal, that is of SceneLoader.ImportMeshAsync; its promise *)
(* and its result carry its number.  A loadModel call runs up to its await *)
(* in one step and resumes in a later one, after the promise has settled;  *)
(* the calls waiting for one promise resume in the order in which they     *)
(* began to wait, as promise reactions do.  No loadModel is called on a    *)
(* disposed manager.                                                       *)
(***************************************************************************)
MaxCalls == 3
Percentages == {50, 100}

assetsRest == <<cfg, scene, worldMeshes, mesh, position, verticalVelocity, isGrounded,
                isMoving, flyMode, isPaused, gameState, keyMap, stats, frame, clock,
                playerScaleFactor, inputManager, keyEvents, panels, cameraController>>

Waiting(c) == c.pc \in {"awaitOwn", "awaitOther"}

\* a loadModel that looks at the cache only and starts an import otherwise
LoadModelUncoordinated(name) ==
    LET am == assetManager
        id == Len(am.imports) + 1
    IN  /\ ~am.disposed
        /\ Len(am.calls) < MaxCalls
        /\ assetManager' =
              IF am.loadedAssets[name] # 0
              THEN [am EXCEPT !.calls = Append(@, [name |-> name, pc |-> "returned",
                                                   promise |-> 0,
                                                   result |-> am.loadedAssets[name]])]
              ELSE [am EXCEPT !.imports = Append(@, [name |-> name, state |-> "pending"]),
                              !.loadingPromises[name] = id,
                              !.calls = Append(@, [name |-> name, pc |-> "awaitOwn",
                                                   promise |-> id, result |-> 0])]
        /\ UNCHANGED assetsRest

\* loadModel(name, ...) up to its first await, or to its return from the cache
LoadModel(name) ==
    LET am == assetManager
        id == Len(am.imports) + 1
    IN  /\ ~am.disposed
        /\ Len(am.calls) < MaxCalls
        /\ assetManager' =
              IF am.loadedAssets[name] # 0
              THEN [am EXCEPT !.calls = Append(@, [name |-> name, pc |-> "returned",
                                                   promise |-> 0,
                                                   result |-> am.loadedAssets[name]])]
              ELSE IF am.loadingPromises[name] # 0
              THEN [am EXCEPT !.calls = Append(@, [name |-> name, pc |-> "awaitOther",
                                                   promise |-> am.loadingPromises[name],
                                                   result |-> 0])]
              ELSE [am EXCEPT !.imports = Append(@, [name |-> name, state |-> "pending"]),
                              !.loadingPromises[name] = id,
                              !.calls = Append(@, [name |-> name, pc |-> "awaitOwn",
                                                   promise |-> id, result |-> 0])]
        /\ UNCHANGED assetsRest

\* the progress callback of a running import
ImportProgress(i) ==
    /\ assetManager.imports[i].state = "pending"
    /\ \E percentage \in Percentages :
          assetManager' = [assetManager EXCEPT
                              !.loadingProgress[assetManager.imports[i].name] = percentage]
    /\ UNCHANGED assetsRest

\* ImportMeshAsync resolves or rejects
ImportSettles(i) ==
    /\ assetManager.imports[i].state = "pending"
    /\ \E state \in {"resolved", "rejected"} :
          assetManager' = [assetManager EXCEPT !.imports[i].state = state]
    /\ UNCHANGED assetsRest

\* a loadModel whose catch branch leaves loadingPromises as it is
ResumeKeepingPromise(c) ==
    LET am == assetManager
        call == am.calls[c]
        state == am.imports[call.promise].state
    IN  /\ Waiting(call)
        /\ state # "pending"
        /\ \A b \in 1..(c - 1) : ~(Waiting(am.calls[b]) /\ am.calls[b].promise = call.promise)
        /\ assetManager' =
              IF call.pc = "awaitOwn" /\ state = "resolved"
              THEN [am EXCEPT !.loadedAssets[call.name] = call.promise,
                              !.loadingPromises[call.name] = 0,
                              !.calls[c].pc = "returned",
                              !.calls[c].result = call.promise]
              ELSE IF state = "resolved"
              THEN [am EXCEPT !.calls[c].pc = "returned", !.calls[c].result = call.promise]
              ELSE [am EXCEPT !.calls[c].pc = "raised"]
        /\ UNCHANGED assetsRest

\* loadModel from its await on: the owner of the import stores the result or
\* deletes the promise and rethrows, a call that waited for another call's
\* promise returns its value or throws its reason
Resume(c) ==
    LET am == assetManager
        call == am.calls[c]
        state == am.imports[call.promise].state
    IN  /\ Waiting(call)
        /\ state # "pending"
        /\ \A b \in 1..(c - 1) : ~(Waiting(am.calls[b]) /\ am.calls[b].promise = call.promise)
        /\ assetManager' =
              IF call.pc = "awaitOwn" /\ state = "resolved"
              THEN [am EXCEPT !.loadedAssets[call.name] = call.promise,
                              !.loadingPromises[call.name] = 0,
                              !.calls[c].pc = "returned",
                              !.calls[c].result = call.promise]
              ELSE IF call.pc = "awaitOwn"
              THEN [am EXCEPT !.loadingPromises[call.name] = 0,
                              !.calls[c].pc = "raised"]
              ELSE IF state = "resolved"
              THEN [am EXCEPT !.calls[c].pc = "returned", !.calls[c].result = call.promise]
              ELSE [am EXCEPT !.calls[c].pc = "raised"]
        /\ UNCHANGED assetsRest

\* AssetManager.dispose: every loaded asset unloaded, the three maps cleared
Dispose ==
    /\ ~assetManager.disposed
    /\ assetManager' = [assetManager EXCEPT
                           !.loadedAssets = NewAssetManager.loadedAssets,
                           !.loadingPromises = NewAssetManager.loadingPromises,
                           !.loadingProgress = NewAssetManager.loadingProgress,
                           !.disposed = TRUE]
    /\ UNCHANGED assetsRest

NextAssets ==
    \/ \E name \in AssetNames : LoadModel(name)
    \/ \E i \in DOMAIN assetManager.imports : ImportProgress(i)
    \/ \E i \in DOMAIN assetManager.imports : ImportSettles(i)
    \/ \E c \in DOMAIN assetManager.calls : Resume(c)
    \/ Dispose

SpecAssets == ControlsInit /\ [][NextAssets]_vars

(***************************************************************************)
(* The single-ray revision of the player, src/src/entities/Player.js: a    *)
(* larger envelope, one probe ray of length 10 cast after the move, the    *)
(* snap to the surface and the jump decided from that probe.  The game     *)
(* runs it over the flat floor of the loaded model with the jump key.      *)
(***************************************************************************)
SingleRayEllipsoidXCoef == 7500
SingleRayEllipsoidYCoef == 9000
SingleRayLength == 10 * 10^5
SingleRayFallback == [x |-> 0 - 5 * 10^5, y |-> 2 * 10^5, z |-> 0]

SingleRayEllipsoid ==
    [x |-> SingleRayEllipsoidXCoef * scaleFactor,
     y |-> SingleRayEllipsoidYCoef * scaleFactor,
     z |-> SingleRayEllipsoidXCoef * scaleFactor]

\* findGround(worldMeshes) with the mesh at pos
SingleRayOrigin(pos) == [pos EXCEPT !.y = Sub(pos.y, SingleRayEllipsoid.y)]

SingleRayFindGround(pos, wm) ==
    PickWithRay(SingleRayOrigin(pos), SingleRayLength,
                {m \in DOMAIN scene : FindGroundPredicate(m, wm)})

\* where placeOnGround(wm) puts the player
SingleRayPlaceOnGroundTarget(wm) ==
    IF ~HasWorldMeshes(wm) THEN SingleRayFallback
    ELSE LET startPosition == [x |-> 0 - 5 * 10^5,
                               y |-> SpawnRayStartCoef * scaleFactor,
                               z |-> 0]
             groundHit == PickWithRay(startPosition, SpawnRayLengthCoef * scaleFactor,
                                      {m \in DOMAIN scene :
                                          m \in wm.list /\ scene[m].checkCollisions})
         IN  IF groundHit.hit
             THEN [groundHit.pickedPoint EXCEPT
                      !.y = groundHit.pickedPoint.y + SingleRayEllipsoid.y + SpawnClearance]
             ELSE SingleRayFallback

\* The frames of this player are timed in hundredths of a second, ten to the
\* model's unit of time: at jumpForce 2 and gravity -9.81 (times the scale)
\* the rise after a jump lasts 0.02 s, less than one 0.1 s frame.
SingleRayTicks == 10
SingleRayDeltaTimes == {1, 2}

\* verticalVelocity += gravity * deltaTime
SingleRayFall(v, deltaTime) == v + (gravity * deltaTime) \div SingleRayTicks

\* moveDirection.normalize().scale(speed * deltaTime)
SingleRayHorizontalMove(inputMap, deltaTime) ==
    [x |-> HorizontalMove(inputMap, deltaTime).x \div SingleRayTicks,
     z |-> HorizontalMove(inputMap, deltaTime).z \div SingleRayTicks]

\* updateNormalMode, lines 246-295: gravity, the move, then the probe
SingleRayUpdateNormalMode(inputMap, horizontalMove, wm, deltaTime) ==
    LET vv1 == SingleRayFall(verticalVelocity, deltaTime)
        totalMove == [x |-> horizontalMove.x,
                      y |-> (vv1 * deltaTime) \div SingleRayTicks,
                      z |-> horizontalMove.z]
        moved == MoveWithEllipsoid(SingleRayEllipsoid.y, mesh.position, totalMove)
        groundHit == SingleRayFindGround(moved, wm)
        snap == groundHit.hit /\ vv1 <= 0
        jump == groundHit.hit /\ Pressed(inputMap, "jump")
    IN  [meshPosition |-> IF snap
                          THEN [moved EXCEPT !.y = groundHit.pickedPoint.y
                                                      + SingleRayEllipsoid.y]
                          ELSE moved,
         checkCollisions |-> TRUE,
         verticalVelocity |-> IF jump THEN jumpForce ELSE IF snap THEN 0 ELSE vv1,
         isGrounded |-> groundHit.hit /\ ~jump,
         frame |-> [op |-> "update", mode |-> "normal", groundHit |-> groundHit,
                    rays |-> << SingleRayOrigin(moved) >>, grounded |-> groundHit.hit,
                    corrected |-> snap, moves |-> << totalMove >>]]

\* Player.update of the revision, lines 166-222, with flyMode off
SingleRayPlayerUpdate(inputMap, wm, deltaTime) ==
    LET d == MoveDirection(inputMap)
        horizontalMove == SingleRayHorizontalMove(inputMap, deltaTime)
        r == SingleRayUpdateNormalMode(inputMap, horizontalMove, wm, deltaTime)
    IN  /\ isMoving' = (LengthSquared(d) > 0)
        /\ mesh' = [position |-> r.meshPosition,
                    checkCollisions |-> r.checkCollisions,
                    rotationY |-> IF LengthSquared(d) > 0 THEN Atan2Deg(d)
                                  ELSE mesh.rotationY]
        /\ verticalVelocity' = r.verticalVelocity
        /\ isGrounded' = r.isGrounded
        /\ position' = r.meshPosition
        /\ frame' = r.frame

SingleRayInit ==
    /\ cfg = DefaultConfig
    /\ scene = SceneOf("flat")
    /\ worldMeshes = [isNull |-> FALSE, list |-> WorldIds("flat")]
    /\ position = SingleRayPlaceOnGroundTarget(worldMeshes)
    /\ mesh = [ConstructedMesh EXCEPT !.position = SingleRayPlaceOnGroundTarget(worldMeshes)]
    /\ frame = [NoFrame EXCEPT !.op = "placeOnGround"]
    /\ verticalVelocity = 0
    /\ isGrounded = FALSE
    /\ isMoving = FALSE
    /\ flyMode = FALSE
    /\ isPaused = FALSE
    /\ gameState = "playing"
    /\ keyMap = {}
    /\ stats = [frameCount |-> 0, deltaTime |-> 0]
    /\ clock = ClockStart
    /\ playerScaleFactor = scaleFactor
    /\ assetManager = NewAssetManager
    /\ inputManager = NewInputManager
    /\ keyEvents = NoKeyEvents
    /\ panels = NewPanels
    /\ cameraController = NewCameraController

\* Game.update with the player of the revision
SingleRayFrame ==
    /\ stats.frameCount < MaxFrames
    /\ ~(isPaused \/ gameState = "paused")
    /\ ~flyMode
    /\ \E deltaTime \in SingleRayDeltaTimes :
          /\ stats' = [frameCount |-> NextFrameCount, deltaTime |-> deltaTime]
          /\ SingleRayPlayerUpdate(keyMap, worldMeshes, deltaTime)
    /\ UNCHANGED <<cfg, scene, worldMeshes, flyMode, isPaused, gameState, keyMap, clock,
                   playerScaleFactor, assetManager, inputManager,
                   keyEvents, panels, cameraController>>

NextSingleRay ==
    \/ SingleRayFrame
    \/ \E k \in Keys : KeyDown(k)
    \/ \E k \in Keys : KeyUp(k)

SpecSingleRay == SingleRayInit /\ [][NextSingleRay]_vars

(***************************************************************************)
(* Shorthands for the properties.                                          *)
(***************************************************************************)
\* this step is a render-loop callback that ran Player.update
FrameStep == stats'.frameCount = stats.frameCount + 1
NormalFrameStep == FrameStep /\ ~flyMode
AfterNormalUpdate == frame.op = "update" /\ frame.mode = "normal"
JumpKey == KeyBindings["jump"]

\* C1: after every Player.update (normal or fly mode), isGrounded = true
\* implies verticalVelocity = 0.
C1_GroundedHasZeroVelocity ==
    (frame.op = "update" /\ isGrounded) => verticalVelocity = 0

C1_Witness ==
    /\ AfterNormalUpdate
    /\ isGrounded
    /\ frame.groundHit.hit
    /\ stats.deltaTime = 2

\* C2: normal-mode frame with the jump key asserted: when the ground test
\* leaves the player not grounded, verticalVelocity changes by the gravity
\* term only; when it leaves the player grounded, the frame ends with
\* verticalVelocity = jumpForce and isGrounded = false.
C2_JumpOnlyFromGround ==
    [][(NormalFrameStep /\ JumpKey \in keyMap) =>
          IF frame'.grounded
          THEN verticalVelocity' = jumpForce /\ ~isGrounded'
          ELSE verticalVelocity' = verticalVelocity + gravity * stats'.deltaTime]_vars

C2_Witness ==
    /\ AfterNormalUpdate
    /\ JumpKey \in keyMap
    /\ frame.grounded
    /\ verticalVelocity = jumpForce
    /\ ~isGrounded

\* C3: in a normal-mode frame the ground test marks the player grounded (and
\* zeroes verticalVelocity) exactly when findGround at the pre-movement
\* position hits, the hit distance is at most groundTolerance x scaleFactor
\* and the velocity at frame start is <= 0; otherwise the player is airborne
\* and verticalVelocity becomes v + gravity * deltaTime.
C3_GroundTest ==
    [][NormalFrameStep =>
          LET h == FindGround(worldMeshes)
              T == Mul(cfg.groundTolerance, scaleFactor)
              cond == h.hit /\ IsNum(T) /\ h.distance <= T /\ verticalVelocity <= 0
          IN  /\ frame'.grounded <=> cond
              /\ (cond /\ JumpKey \notin keyMap) => (isGrounded' /\ verticalVelocity' = 0)
              /\ ~cond => /\ ~isGrounded'
                          /\ verticalVelocity' = verticalVelocity + gravity * stats'.deltaTime]_vars

\* a frame that found ground within tolerance while the player was rising
C3_Witness ==
    /\ AfterNormalUpdate
    /\ frame.groundHit.hit
    /\ Leq(frame.groundHit.distance, Tolerance)
    /\ ~frame.grounded
    /\ ~isGrounded

\* C4: in a normal-mode frame with no ground hit and no jump key,
\* verticalVelocity after the frame is its value before plus
\* gravity * deltaTime, which is strictly less.
C4_GravityMonotone ==
    [][(NormalFrameStep /\ ~FindGround(worldMeshes).hit /\ JumpKey \notin keyMap) =>
          /\ verticalVelocity' = verticalVelocity + gravity * stats'.deltaTime
          /\ verticalVelocity' < verticalVelocity]_vars

\* two consecutive airborne frames, one of each deltaTime
C4_Witness ==
    /\ AfterNormalUpdate
    /\ stats.frameCount = 2
    /\ ~frame.groundHit.hit
    /\ JumpKey \notin keyMap
    /\ verticalVelocity = 3 * gravity

\* C5: when fly mode is switched off after having been switched on during a
\* fall (so verticalVelocity < 0 unless a fly-mode frame has run since),
\* verticalVelocity is 0 from the switch-off on, whether or not a frame ran
\* while fly mode was on.
C5_FlyToggleResetsVelocity ==
    [][(flyMode /\ ~flyMode' /\ verticalVelocity < 0) => verticalVelocity' = 0]_vars

\* C6: the player at rest on a flat surface it is grounded on (position.y =
\* hitY + ellipsoid.y, verticalVelocity = 0, every probe at the same height),
\* no key asserted: one normal-mode update submits the zero displacement,
\* applies no Y correction and leaves position, verticalVelocity and
\* isGrounded = true unchanged.
AtRestOnFlatSurface ==
    LET h == FindGround(worldMeshes)
    IN  /\ h.hit
        /\ mesh.position.y = h.pickedPoint.y + ellipsoid.y
        /\ \A i \in 1..Len(RayOffsets) :
              /\ GroundProbe(i, worldMeshes).hit
              /\ GroundProbe(i, worldMeshes).pickedPoint.y = h.pickedPoint.y
        /\ verticalVelocity = 0
        /\ isGrounded

C6_SnapIdempotent ==
    [][(NormalFrameStep /\ keyMap = {} /\ AtRestOnFlatSurface) =>
          /\ mesh'.position = mesh.position
          /\ position' = mesh.position
          /\ verticalVelocity' = 0
          /\ isGrounded'
          /\ frame'.moves = << Zero >>
          /\ ~frame'.corrected]_vars

\* the state after an idle frame at rest: two grounded frames in a row, the
\* second from the exact rest height
C6_Witness ==
    /\ AfterNormalUpdate
    /\ stats.frameCount >= 2
    /\ keyMap = {}
    /\ AtRestOnFlatSurface
    /\ frame.grounded
    /\ frame.groundHit.distance = 0
    /\ frame.moves = << Zero >>

\* C7: with the default configuration, a player that starts airborne over
\* the floor of the loaded model and gets no input is eventually grounded.
C7_EventuallyGrounded == <>isGrounded

\* the frame found the floor right under the envelope while the player was
\* falling, and left the player airborne
C7_Witness ==
    /\ AfterNormalUpdate
    /\ frame.groundHit.hit
    /\ frame.groundHit.distance = 0
    /\ verticalVelocity < 0
    /\ ~isGrounded

\* C8: once the player is grounded over the flat floor with zero velocity and
\* no input, the gap between mesh.position.y and hitY + ellipsoid.y is
\* eventually at most the minimum-correction threshold and stays so.
RestGap == Abs(Sub(mesh.position.y, Add(FindGround(worldMeshes).pickedPoint.y, ellipsoid.y)))
Settled == FindGround(worldMeshes).hit /\ Leq(RestGap, MinCorrectionCoef * scaleFactor)
GroundedOverFloor ==
    /\ isGrounded
    /\ verticalVelocity = 0
    /\ FindGround(worldMeshes).hit
    /\ Leq(FindGround(worldMeshes).distance, Tolerance)

C8_Settles == [](GroundedOverFloor => <>[]Settled)

\* grounded for a frame at a gap the correction band leaves alone
C8_Witness ==
    /\ AfterNormalUpdate
    /\ GroundedOverFloor
    /\ frame.grounded
    /\ ~frame.corrected
    /\ RestGap >= MaxCorrectionCoef * scaleFactor

\* C9: findGround casts exactly five rays, the centre line and the four
\* corner offsets, each from the height position.y - ellipsoid.y; it reports a
\* hit if and only if one of the five probes hits, and the hit it returns is
\* one of smallest distance among the probes that hit.
CornerOffset == RayOffsetCoef * scaleFactor
ExpectedOffsets ==
    {[x |-> 0, z |-> 0]} \cup
    {[x |-> sx * CornerOffset, z |-> sz * CornerOffset] : sx \in {0 - 1, 1}, sz \in {0 - 1, 1}}

C9_FiveProbesClosestHit ==
    frame.op = "findGround" =>
        /\ Len(frame.rays) = 5
        /\ \A i \in 1..Len(frame.rays) : frame.rays[i].y = mesh.position.y - ellipsoid.y
        /\ {[x |-> frame.rays[i].x - mesh.position.x, z |-> frame.rays[i].z - mesh.position.z] :
               i \in 1..Len(frame.rays)} = ExpectedOffsets
        /\ frame.groundHit.hit <=> \E i \in 1..5 : GroundProbe(i, worldMeshes).hit
        /\ frame.groundHit.hit =>
              /\ \E i \in 1..5 : frame.groundHit = GroundProbe(i, worldMeshes)
              /\ \A i \in 1..5 : GroundProbe(i, worldMeshes).hit =>
                                    frame.groundHit.distance <= GroundProbe(i, worldMeshes).distance
        /\ ~frame.groundHit.hit => frame.groundHit = NoHit

\* the centre ray misses and a corner ray hits: the probe reports the corner's hit
C9_Witness ==
    /\ frame.op = "findGround"
    /\ ~GroundProbe(1, worldMeshes).hit
    /\ \E i \in 2..5 : GroundProbe(i, worldMeshes).hit
    /\ frame.groundHit.hit

\* C10: whatever the worldMeshes argument and the scene, a hit returned by
\* findGround is on a mesh with checkCollisions = true that is neither the
\* player's mesh nor the sky box.
C10_HitOnlyOnGround ==
    (frame.op = "findGround" /\ frame.groundHit.hit) =>
        /\ scene[frame.groundHit.pickedMesh].checkCollisions
        /\ frame.groundHit.pickedMesh # PlayerMesh
        /\ scene[frame.groundHit.pickedMesh].name # "skyBox"

\* the probe returned a hit on the sky box of the loaded model
C10_Witness ==
    /\ frame.op = "findGround"
    /\ frame.groundHit.hit
    /\ HasWorldMeshes(worldMeshes)
    /\ scene[frame.groundHit.pickedMesh].name = "skyBox"

\* C11: when the spawn ray of placeOnGround hits a world mesh at height hitY,
\* the player ends at the hit point's X and Z with position.y =
\* mesh.position.y = hitY + ellipsoid.y exactly and verticalVelocity = 0.
C11_SpawnOnSurface ==
    (frame.op = "placeOnGround" /\ frame.mode = "hit") =>
        /\ position.y = frame.groundHit.pickedPoint.y + ellipsoid.y
        /\ mesh.position.y = frame.groundHit.pickedPoint.y + ellipsoid.y
        /\ position.x = frame.groundHit.pickedPoint.x
        /\ position.z = frame.groundHit.pickedPoint.z
        /\ verticalVelocity = 0

\* the spawn ray hit and the player was placed above the hit point
C11_Witness ==
    /\ frame.op = "placeOnGround"
    /\ frame.mode = "hit"
    /\ frame.groundHit.hit
    /\ position.y > frame.groundHit.pickedPoint.y + ellipsoid.y

\* C12: placeOnGround with a null or empty worldMeshes, or with a list the
\* spawn ray does not hit, leaves position and mesh.position at the fallback
\* position with verticalVelocity = 0; with a null or empty list no ray is cast.
C12_SpawnFallback ==
    (frame.op = "placeOnGround" /\ ~frame.groundHit.hit) =>
        /\ position = [x |-> 0 - 16 * 10^5, y |-> 2 * 10^5, z |-> 51 * 10^5]
        /\ mesh.position = position
        /\ verticalVelocity = 0
        /\ ~HasWorldMeshes(worldMeshes) => frame.rays = << >>
        /\ HasWorldMeshes(worldMeshes) => Len(frame.rays) = 1

\* placed at the fallback after a fall: the velocity of the fall is gone
C12_Witness ==
    /\ frame.op = "placeOnGround"
    /\ frame.mode = "miss"
    /\ stats.frameCount >= 1
    /\ position = FallbackPosition

\* C13: in every normal-mode frame the ground probe is one findGround call
\* made at the position the frame starts from, and moveWithCollisions is
\* called once, with (horizontal.x, verticalVelocity * deltaTime,
\* horizontal.z) where verticalVelocity is the value the frame ends with
\* (after ground test, gravity and jump).
C13_FrameOrdering ==
    [][NormalFrameStep =>
          LET h == HorizontalMove(keyMap, stats'.deltaTime)
          IN  /\ frame'.mode = "normal"
              /\ Len(frame'.rays) = Len(RayOffsets)
              /\ \A i \in 1..Len(frame'.rays) :
                    frame'.rays[i] = [x |-> mesh.position.x + RayOffsets[i].x,
                                      y |-> Sub(mesh.position.y, ellipsoid.y),
                                      z |-> mesh.position.z + RayOffsets[i].z]
              /\ frame'.groundHit = FindGround(worldMeshes)
              /\ frame'.moves = << [x |-> h.x,
                                    y |-> verticalVelocity' * stats'.deltaTime,
                                    z |-> h.z] >>]_vars

\* a frame that moved forward while the velocity changed under gravity: the
\* displacement carries the new velocity, and the probe was made from above
\* the place the frame ended at
C13_Witness ==
    /\ AfterNormalUpdate
    /\ Len(frame.moves) = 1
    /\ frame.moves[1].z > 0
    /\ frame.moves[1].y = verticalVelocity * stats.deltaTime
    /\ verticalVelocity < 0
    /\ frame.rays[1].z < mesh.position.z

\* C14: a frame in fly mode makes no ground probe and no moveWithCollisions
\* call, sets the mesh's checkCollisions to false, adds (horizontal.x, dy,
\* horizontal.z) to mesh.position, where dy is +playerSpeed*deltaTime with the
\* jump key down, else -playerSpeed*deltaTime with the crouch key down, else
\* 0, and ends with verticalVelocity = 0; a normal-mode frame sets
\* checkCollisions to true.
C14_FlyFrame ==
    [][FrameStep =>
          IF flyMode
          THEN LET h == HorizontalMove(keyMap, stats'.deltaTime)
                   dy == IF "Space" \in keyMap THEN playerSpeed * stats'.deltaTime
                         ELSE IF "ControlLeft" \in keyMap
                              THEN 0 - playerSpeed * stats'.deltaTime
                              ELSE 0
               IN  /\ frame'.mode = "fly"
                   /\ frame'.rays = << >>
                   /\ frame'.moves = << >>
                   /\ ~mesh'.checkCollisions
                   /\ mesh'.position = [x |-> mesh.position.x + h.x,
                                        y |-> mesh.position.y + dy,
                                        z |-> mesh.position.z + h.z]
                   /\ verticalVelocity' = 0
          ELSE mesh'.checkCollisions]_vars

\* flown down through the floor with the crouch key, collisions off
C14_Witness ==
    /\ frame.op = "update"
    /\ frame.mode = "fly"
    /\ "ControlLeft" \in keyMap
    /\ "Space" \notin keyMap
    /\ ~mesh.checkCollisions
    /\ mesh.position.y < ellipsoid.y

\* C15: in every state between operations (after the constructor, after
\* setPosition, after placeOnGround and after each update) Player.position
\* equals mesh.position component by component.
C15_PositionConsistent ==
    /\ position.x = mesh.position.x
    /\ position.y = mesh.position.y
    /\ position.z = mesh.position.z

\* the player as the constructor leaves it when no model was loaded
C15_Witness ==
    /\ frame.op = "construct"
    /\ position = ConstructedPosition
    /\ mesh.position = Zero

\* C20: after every Player.update, isGrounded = true implies that this call
\* made a ground probe that found a surface within tolerance; a fly-mode
\* frame never leaves isGrounded = true from an earlier normal-mode frame.
C20_GroundedHasProbe ==
    (frame.op = "update" /\ isGrounded) =>
        /\ frame.mode = "normal"
        /\ Len(frame.rays) > 0
        /\ frame.groundHit.hit
        /\ Leq(frame.groundHit.distance, Tolerance)

\* a fly-mode frame that ended with the flag of the frame before it
C20_Witness ==
    /\ frame.op = "update"
    /\ frame.mode = "fly"
    /\ isGrounded

\* C16: position, verticalVelocity and isGrounded change only inside a
\* frame's Player.update (or the one-shot spawn placement); no handler of an
\* input event (key, pointer, the position panel's Apply button) changes any
\* of them between frames.
C16_ChangesOnlyInFrames ==
    [][FrameStep \/ /\ position' = position
                    /\ verticalVelocity' = verticalVelocity
                    /\ isGrounded' = isGrounded]_vars

\* the Apply button pressed between two frames moved the player
C16_Witness ==
    /\ frame.op = "setPosition"
    /\ stats.frameCount = 1
    /\ position = [x |-> 0 - 16 * 10^5, y |-> 5 * 10^5, z |-> 51 * 10^5]
    /\ mesh.position = position

\* C17: the deltaTime of every Player.update issued by Game.update is the
\* time elapsed since the immediately preceding render-loop callback; on the
\* first unpaused callback after a pause it does not include the paused time.
C17_DeltaTimeSincePreviousCallback ==
    [][stats'.frameCount # stats.frameCount =>
          stats'.deltaTime = clock.now - clock.lastCallback]_vars

\* the first update after a pause, with a deltaTime longer than the time
\* since the callback before it
C17_Witness ==
    /\ frame.op = "update"
    /\ gameState = "playing"
    /\ stats.lastTime = clock.lastCallback
    /\ clock.previousCallback > 0
    /\ stats.deltaTime > clock.lastCallback - clock.previousCallback

\* the sum of the asserted directional axes, camera forward = +z, right = +x
AxesX == Bit("KeyD" \in keyMap) - Bit("KeyA" \in keyMap)
AxesZ == Bit("KeyW" \in keyMap) - Bit("KeyS" \in keyMap)

\* the horizontal displacement of the frame made by this step: the one
\* submitted to moveWithCollisions, or in fly mode the one added to the mesh
StepHorizontal ==
    IF flyMode
    THEN [x |-> mesh'.position.x - mesh.position.x,
          z |-> mesh'.position.z - mesh.position.z]
    ELSE [x |-> frame'.moves[1].x, z |-> frame'.moves[1].z]

Magnitude1(v) == IF v < 0 THEN 0 - v ELSE v

\* C18: for every combination of the direction keys and run, the horizontal
\* displacement of a frame has magnitude 0 or speed*deltaTime, speed being
\* playerSpeed or 2*playerSpeed with run; a diagonal never exceeds the
\* single-axis magnitude. (With k = deltaTime, doubled under run, a diagonal
\* displacement is (+-q*k, +-q*k) with 2*q^2 <= playerSpeed^2, short of it by
\* less than one part in 10000, the precision of 1/sqrt(2) in the model.)
C18_HorizontalMagnitude ==
    [][FrameStep =>
          LET h == StepHorizontal
              k == stats'.deltaTime * (IF "ShiftLeft" \in keyMap THEN 2 ELSE 1)
              q == Magnitude1(h.x) \div k
          IN  CASE AxesX = 0 /\ AxesZ = 0 -> h.x = 0 /\ h.z = 0
                [] AxesX = 0 /\ AxesZ # 0 ->
                       h.x = 0 /\ Magnitude1(h.z) = playerSpeed * k
                [] AxesX # 0 /\ AxesZ = 0 ->
                       h.z = 0 /\ Magnitude1(h.x) = playerSpeed * k
                [] OTHER ->
                       /\ Magnitude1(h.x) = q * k
                       /\ Magnitude1(h.z) = q * k
                       /\ 2 * q * q <= playerSpeed * playerSpeed
                       /\ playerSpeed * playerSpeed - 2 * q * q
                             <= (playerSpeed * playerSpeed) \div 10000]_vars

\* a diagonal run: both components are non-zero and smaller than the
\* displacement of a single axis
C18_Witness ==
    /\ frame.op = "update"
    /\ frame.mode = "normal"
    /\ {"KeyW", "KeyA", "ShiftLeft"} \subseteq keyMap
    /\ "KeyS" \notin keyMap /\ "KeyD" \notin keyMap
    /\ frame.moves[1].x < 0
    /\ frame.moves[1].z > 0
    /\ frame.moves[1].z < 2 * playerSpeed * stats.deltaTime

\* C19: after every Player.update isMoving is true iff the sum of the
\* asserted directional axes is non-zero; opposite pairs alone give
\* isMoving = false, a zero horizontal displacement and an unchanged mesh
\* rotation.
C19_IsMovingIffIntent ==
    [][FrameStep =>
          /\ isMoving' = (AxesX # 0 \/ AxesZ # 0)
          /\ (AxesX = 0 /\ AxesZ = 0) =>
                 /\ ~isMoving'
                 /\ StepHorizontal = [x |-> 0, z |-> 0]
                 /\ mesh'.position.x = mesh.position.x
                 /\ mesh'.position.z = mesh.position.z
                 /\ mesh'.rotationY = mesh.rotationY]_vars

\* left and right held together after a frame that turned the mesh right
C19_Witness ==
    /\ frame.op = "update"
    /\ {"KeyA", "KeyD"} \subseteq keyMap
    /\ "KeyW" \notin keyMap /\ "KeyS" \notin keyMap
    /\ ~isMoving
    /\ mesh.rotationY = 90
    /\ stats.frameCount = 2

\* C21: invalid input fails fast: a Player.update with an undefined or
\* non-finite ground tolerance raises an error before position,
\* verticalVelocity or isGrounded is modified, and NaN never enters position
\* or verticalVelocity.
C21_InvalidInputFailsFast ==
    [][NormalFrameStep =>
          /\ IsNum(Tolerance) \/ /\ position' = position
                                 /\ verticalVelocity' = verticalVelocity
                                 /\ isGrounded' = isGrounded
          /\ IsNum(position'.y)
          /\ IsNum(verticalVelocity')]_vars

\* a frame that ran to its end with the tolerance NaN and changed the velocity
C21_Witness ==
    /\ AfterNormalUpdate
    /\ cfg.groundTolerance = Undefined
    /\ Tolerance = NaN
    /\ verticalVelocity < 0

\* a frame that wrote NaN into the position
C21_NaNPosition ==
    /\ AfterNormalUpdate
    /\ position.y = NaN

\* C22: when mesh.moveWithCollisions raises in a normal-mode frame, the
\* exception does not leave Player.update: the displacement is dropped and
\* Player.position is still written back from mesh.position.
C22_MoveFailureContained ==
    /\ frame.op # "updateRaised"
    /\ frame.op \in {"update", "updateRaised"} => position = mesh.position

\* an update left by the exception after the Y correction had moved the mesh
C22_Witness ==
    /\ frame.op = "updateRaised"
    /\ frame.corrected
    /\ position.y # mesh.position.y

\* C23: when no world model is loaded, or the spawn ray misses and the
\* fallback position is used, the player comes to rest on the fallback test
\* ground: after finitely many normal-mode frames isGrounded is true and
\* verticalVelocity has stopped decreasing.
C23_RestsOnFallbackGround == <>(isGrounded /\ verticalVelocity = 0)

\* still falling, far below the test ground, never grounded on the way
C23_Witness ==
    /\ AfterNormalUpdate
    /\ ~isGrounded
    /\ ~frame.groundHit.hit
    /\ mesh.position.y < 0 - RayLength
    /\ verticalVelocity < 0 - MaxFallSpeed \div 2

\* the vertical displacement dy from the mesh's place meets no colliding face
Unobstructed(dy) ==
    \A m \in DOMAIN scene :
        ~ /\ scene[m].checkCollisions
          /\ scene[m].x0 <= mesh.position.x /\ mesh.position.x <= scene[m].x1
          /\ scene[m].z0 <= mesh.position.z /\ mesh.position.z <= scene[m].z1
          /\ scene[m].top + ellipsoid.y <= mesh.position.y
          /\ scene[m].top + ellipsoid.y > mesh.position.y + dy

\* C24: a normal-mode frame with no ground hit, no input and unobstructed
\* motion, starting from vertical velocity v and height y, ends with
\* verticalVelocity = v + gravity*dt, position.y = y + (v + gravity*dt)*dt
\* (the displacement uses the velocity already updated) and isGrounded =
\* false.  The height the frame starts from is the mesh's.
C24_AirborneStep ==
    [][(/\ NormalFrameStep
        /\ ~FindGround(worldMeshes).hit
        /\ keyMap = {}
        /\ IsNum(mesh.position.y)
        /\ Unobstructed((verticalVelocity + gravity * stats'.deltaTime)
                           * stats'.deltaTime))
       => LET dt == stats'.deltaTime
              v == verticalVelocity
              y == mesh.position.y
          IN  /\ verticalVelocity' = v + gravity * dt
              /\ position'.y = y + (v + gravity * dt) * dt
              /\ mesh'.position.y = position'.y
              /\ position'.x = mesh.position.x
              /\ position'.z = mesh.position.z
              /\ ~isGrounded']_vars

\* the second frame of a free fall, 0.2 s after a first of 0.1 s
C24_Witness ==
    /\ AfterNormalUpdate
    /\ ~frame.groundHit.hit
    /\ keyMap = {}
    /\ stats.frameCount = 2
    /\ stats.deltaTime = 2
    /\ verticalVelocity = 3 * gravity
    /\ frame.moves = << [x |-> 0, y |-> 6 * gravity, z |-> 0] >>
    /\ position.y = 0 - 7 * 98100

\* C25: for every positive scaleFactor the length of each ground-probe ray
\* is at least 20 times the envelope's vertical half-extent, so a floor that
\* close under the envelope is found.
C25_RayLengthCoversEnvelope ==
    frame.op = "findGround" =>
        /\ RayLength >= 20 * EllipsoidFor(playerScaleFactor).y
        /\ \A i \in 1..Len(frame.rays) :
              (/\ IsNum(frame.rays[i].y)
               /\ frame.rays[i].y >= 0
               /\ frame.rays[i].y <= 20 * EllipsoidFor(playerScaleFactor).y)
              => frame.groundHit.hit

\* scaleFactor 20: the floor is 25 units under the envelope, less than 20
\* times ellipsoid.y = 27.2 units, and no ray reaches it
C25_Witness ==
    /\ frame.op = "findGround"
    /\ playerScaleFactor = 20
    /\ frame.rays[1].y = 25 * 10^5
    /\ ~frame.groundHit.hit

\* C26: for every scaleFactor the four corner probes of findGround are
\* offset from the body centre by exactly plus or minus half the horizontal
\* envelope extent in x and in z.  The extent is taken as the envelope's
\* width 2*ellipsoid.x, or else as ellipsoid.x itself.
C26_CornersOnEnvelope ==
    frame.op = "findGround" =>
        \E half \in {EllipsoidFor(playerScaleFactor).x,
                      EllipsoidFor(playerScaleFactor).x \div 2} :
            \A i \in 2..5 :
                /\ Magnitude1(frame.rays[i].x - mesh.position.x) = half
                /\ Magnitude1(frame.rays[i].z - mesh.position.z) = half

\* the game's scale: the corner rays are 0.5 from the centre, the envelope's
\* half-width is 0.567
C26_Witness ==
    /\ frame.op = "findGround"
    /\ playerScaleFactor = scaleFactor
    /\ assetManager = NewAssetManager
    /\ inputManager = NewInputManager
    /\ keyEvents = NoKeyEvents
    /\ panels = NewPanels
    /\ cameraController = NewCameraController
    /\ frame.rays[2].x - mesh.position.x = 50000
    /\ frame.rays[2].z - mesh.position.z = 50000
    /\ EllipsoidFor(playerScaleFactor).x = 56700

C28_SingleRayGroundedAtRest ==
    (frame.op = "update" /\ frame.mode = "normal" /\ isGrounded) => verticalVelocity = 0

\* rising after a jump, the key released, the floor still within the ray
C28_Witness ==
    /\ frame.op = "update"
    /\ frame.mode = "normal"
    /\ isGrounded
    /\ verticalVelocity > 0
    /\ frame.groundHit.hit
    /\ frame.groundHit.distance > 0
    /\ JumpKey \notin keyMap

\* C29: single-ray revision: with the jump key held over consecutive
\* normal-mode frames, verticalVelocity is set to jumpForce only in a frame
\* in which the player stands on the ground (velocity after the move <= 0,
\* snapped to the surface); a frame in which the player is already rising
\* above the surface does not apply the impulse again.
C29_SingleRayJumpFromGround ==
    [][(FrameStep /\ ~flyMode /\ JumpKey \in keyMap /\ verticalVelocity' = jumpForce) =>
          /\ frame'.groundHit.hit
          /\ SingleRayFall(verticalVelocity, stats'.deltaTime) <= 0
          /\ frame'.corrected]_vars

\* the second frame of a held jump: the velocity before the frame was
\* jumpForce, the player rose, and the frame set jumpForce again
C29_Witness ==
    /\ frame.op = "update"
    /\ frame.mode = "normal"
    /\ JumpKey \in keyMap
    /\ stats.frameCount >= 2
    /\ frame.moves[1].y > 0
    /\ frame.groundHit.hit
    /\ frame.groundHit.distance > 0
    /\ ~frame.corrected
    /\ verticalVelocity = jumpForce

\* C30: paused frames are inert: in every render-loop callback that finds
\* Game.isPaused true or the UI's gameState 'paused', Player.update is not
\* invoked, and position, verticalVelocity, isGrounded and isMoving (with the
\* mesh and the frame statistics) are left as they were.
C30_PausedFramesInert ==
    [][(clock'.lastCallback # clock.lastCallback /\ (isPaused \/ gameState = "paused")) =>
          UNCHANGED <<frame, stats, mesh, position, verticalVelocity, isGrounded,
                      isMoving>>]_vars

\* a callback has run since the last frame that updated the player: paused
\* through the UI only, in the air after a jump with the jump key down
C30_Witness ==
    /\ ~isPaused
    /\ gameState = "paused"
    /\ frame.op = "update"
    /\ ~isGrounded
    /\ JumpKey \in keyMap
    /\ clock.lastCallback > stats.lastTime

\* C31: focus loss pauses: after a blur event of the window is handled while
\* the game is running, Game.isPaused is true, whatever it was before; a
\* blur does not resume a game that was paused.
C31_BlurPauses == [][WindowBlur => isPaused']_vars

\* the game runs unpaused behind a visible settings panel: showSettingsPanel
\* set gameState to 'paused', and only a blur that resumed the game set it
\* back while the panel stayed open
C31_Witness ==
    /\ ~isPaused
    /\ gameState = "playing"
    /\ panels.settings
    /\ inputManager.keyMap = NewInputManager.keyMap
    /\ frame.op # "reset"

\* C36: in every state reached through the key handlers, the panel buttons,
\* Game.togglePause and window blur, a visible settings panel implies that
\* UIManager.gameState is 'paused'.
C36_SettingsImpliesPaused == panels.settings => gameState = "paused"

\* the settings panel is open over a game that runs
C36_Witness ==
    /\ panels.settings
    /\ panels.activePanel = "settings"
    /\ gameState = "playing"
    /\ ~isPaused

\* C37: toggleCameraMode goes arcRotate -> free -> follow -> arcRotate, three
\* calls return to the mode they started from, and after every
\* toggleCameraMode or setActiveCamera (one with an unknown mode changes
\* nothing) scene.activeCamera is the camera of currentMode.
C37_CameraCycle ==
    [][/\ cameraController'.activeCamera = cameraController'.currentMode
       /\ KeyF =>
             /\ cameraController.currentMode = "arcRotate" =>
                   cameraController'.currentMode = "free"
             /\ cameraController.currentMode = "free" =>
                   cameraController'.currentMode = "follow"
             /\ cameraController.currentMode = "follow" =>
                   cameraController'.currentMode = "arcRotate"
             /\ ToggledMode(ToggledMode(cameraController'.currentMode))
                   = cameraController.currentMode
       /\ (SetActiveCamera /\ cameraController'.currentMode # cameraController.currentMode) =>
             cameraController'.currentMode \in CameraModes]_vars

\* the follow camera is active, two toggles after the start or a call away
C37_Witness ==
    /\ cameraController.currentMode = "follow"
    /\ cameraController.activeCamera = "follow"

\* C38: after Game.reset on an initialised game, with fly mode on or off,
\* the call has returned without raising, flyMode is false, and when there
\* are world meshes the player has been placed by placeOnGround with
\* verticalVelocity = 0.
C38_ResetRestores ==
    [][GameReset =>
          /\ frame'.mode # "raised"
          /\ ~flyMode'
          /\ HasWorldMeshes(worldMeshes) =>
                /\ position' = PlaceOnGroundTarget(worldMeshes)
                /\ verticalVelocity' = 0]_vars

\* reset has raised with fly mode on
C38_Witness ==
    /\ frame.op = "reset"
    /\ frame.mode = "raised"
    /\ flyMode

\* C39: in arcRotate mode the KeyY key alternates: the press after a press
\* restores the radius the camera had before, and the radius stays within
\* [lowerRadiusLimit, upperRadiusLimit].
C39_FarZoomAlternates ==
    [][(KeyY /\ cameraController.currentMode = "arcRotate") =>
          /\ KeyYRadius("arcRotate", cameraController'.radius) = cameraController.radius
          /\ LowerRadiusLimit <= cameraController'.radius
          /\ cameraController'.radius <= UpperRadiusLimit]_vars

\* two presses from the initial radius 15 have left 60
C39_Witness ==
    /\ cameraController.currentMode = "arcRotate"
    /\ cameraController.radius = 4 * InitialRadius

\* C32: the key map Game.update obtains for a frame holds exactly the key
\* codes whose last keydown/keyup processed while input was enabled, since
\* the last blur, reset or disable, was a keydown (so it is empty after a
\* blur or setEnabled(false) until a keydown is processed again), and key
\* events that arrive after it was taken do not alter it.
C32_KeySnapshot ==
    [][IF FrameStep
       THEN keyMap' = {k \in Keys : keyEvents[k] = "down"}
       ELSE keyMap' = keyMap]_vars

\* a frame took its key map with a key down; afterwards that key was
\* released and the other, released before, has its entry at false
C32_Witness ==
    /\ frame.op = "update"
    /\ keyMap = {"Space"}
    /\ inputManager.keyMap["Space"] = "false"
    /\ inputManager.keyMap["KeyW"] = "false"
    /\ keyEvents["KeyW"] = "up"

\* the imports of a name that are running or have delivered a model
LiveImports(am, name) ==
    {i \in DOMAIN am.imports :
        am.imports[i].name = name /\ am.imports[i].state \in {"pending", "resolved"}}

SpentFailures(am, name) ==
    {i \in DOMAIN am.imports :
        /\ am.imports[i].name = name
        /\ am.imports[i].state = "rejected"
        /\ \A c \in DOMAIN am.calls : ~(Waiting(am.calls[c]) /\ am.calls[c].promise = i)}

\* C34: a failed load leaves no residue: when the import rejects, every call
\* that waited for it throws, afterwards the name is neither in loadedAssets
\* nor in loadingPromises, and a later loadModel with that name starts a new
\* import.
C34_FailureLeavesNoResidue ==
    [][LET am == assetManager'
       IN  /\ \A c \in DOMAIN assetManager.calls :
                 (/\ Waiting(assetManager.calls[c])
                  /\ ~Waiting(am.calls[c])
                  /\ am.imports[am.calls[c].promise].state = "rejected") =>
                     am.calls[c].pc = "raised"
           /\ \A name \in AssetNames : \A i \in SpentFailures(am, name) :
                 am.loadedAssets[name] # i /\ am.loadingPromises[name] # i
           /\ Len(am.calls) = Len(assetManager.calls) + 1 =>
                 LET name == am.calls[Len(am.calls)].name
                 IN  (/\ SpentFailures(assetManager, name) # {}
                      /\ \A i \in DOMAIN assetManager.imports :
                            assetManager.imports[i].name = name =>
                               i \in SpentFailures(assetManager, name)) =>
                         /\ Len(am.imports) = Len(assetManager.imports) + 1
                         /\ am.imports[Len(am.imports)] =
                               [name |-> name, state |-> "pending"]]_vars

\* an import failed under two calls, both threw, and a third call has
\* started the second import of the name
C34_Witness ==
    /\ Len(assetManager.calls) = 3
    /\ Len(assetManager.imports) = 2
    /\ assetManager.imports[1].state = "rejected"
    /\ assetManager.calls[1].pc = "raised"
    /\ assetManager.calls[2].pc = "raised"
    /\ assetManager.calls[2].promise = 1
    /\ assetManager.calls[3].promise = 2
    /\ assetManager.imports[2].name = assetManager.imports[1].name
    /\ ~assetManager.disposed

\* C35: dispose is final: once dispose() has returned, loadedAssets,
\* loadingPromises and loadingProgress are empty and stay empty, also when a
\* loadModel call was in flight at the time and settles afterwards.
C35_DisposeIsFinal ==
    assetManager.disposed =>
        /\ assetManager.loadedAssets = NewAssetManager.loadedAssets
        /\ assetManager.loadingPromises = NewAssetManager.loadingPromises
        /\ assetManager.loadingProgress = NewAssetManager.loadingProgress

\* the import that was running at dispose has resolved and its loadModel
\* has stored the model in the disposed manager
C35_Witness ==
    /\ assetManager.disposed
    /\ assetManager.loadedAssets["main_model"] = 1
    /\ assetManager.calls[1].pc = "returned"

====
